---- MODULE Spec2Model ----
(***************************************************************************)
(* Model of opencode-hashline: the line hasher, the annotator              *)
(* (formatFileWithHashes / stripHashes), the reference parser, verifyHash, *)
(* the range engine, applyHashEdit, and the hashline_edit tool.            *)
(*                                                                         *)
(* A JavaScript string is a sequence of UTF-16 code units (naturals).      *)
(* A 32-bit unsigned integer is a pair <<hi, lo>> of 16-bit halves, so     *)
(* that no intermediate value leaves the range of the checker's integers.  *)
(***************************************************************************)
EXTENDS Integers, Sequences, FiniteSets, TLC

VARIABLES ann, ver, ed, disk, cache, meta, call

vars == <<ann, ver, ed, disk, cache, meta, call>>

----------------------------------------------------------------------------
(* Characters                                                              *)

LF == 10
CR == 13

\* String.prototype.trimEnd / trim and the regex class \s: the WhiteSpace and
\* LineTerminator code units of ECMAScript
WhiteSpace ==
    {9, 10, 11, 12, 13, 32, 160, 5760, 8232, 8233, 8239, 8287, 12288, 65279}
        \cup (8192..8202)

IsWhiteSpace(c) == c \in WhiteSpace

\* Regex class \d
Digit == 48..57

\* Regex class [0-9a-f]
LowerHex == (48..57) \cup (97..102)

\* Regex class [0-9a-f] under the /i flag
AnyHex == (48..57) \cup (97..102) \cup (65..70)

\* Regex class [#\w]
HashOrWord == {35, 95} \cup (48..57) \cup (65..90) \cup (97..122)

\* Regex "." (no s flag) matches anything but these line terminators
LineTerminator == {10, 13, 8232, 8233}

\* String.prototype.toLowerCase on the characters a hash can hold
toLowerCase(s) == [i \in 1..Len(s) |-> IF s[i] \in 65..90 THEN s[i] + 32 ELSE s[i]]

----------------------------------------------------------------------------
(* String helpers                                                          *)

\* content.includes("\r\n")
includesCRLF(s) == \E i \in 1..(Len(s) - 1) : s[i] = CR /\ s[i + 1] = LF

\* a variant of detectLineEnding that never reports "\r\n"
detectLineEndingLF(content) == <<LF>>

\* detectLineEnding: "\r\n" if any CRLF sequence is present, otherwise "\n"
detectLineEnding(content) == IF includesCRLF(content) THEN <<CR, LF>> ELSE <<LF>>

RECURSIVE replaceCRLFFrom(_, _, _)
replaceCRLFFrom(s, i, acc) ==
    IF i > Len(s) THEN acc
    ELSE IF s[i] = CR /\ i < Len(s) /\ s[i + 1] = LF
         THEN replaceCRLFFrom(s, i + 2, Append(acc, LF))
         ELSE replaceCRLFFrom(s, i + 1, Append(acc, s[i]))

\* s.replace(/\r\n/g, "\n")
replaceCRLF(s) == replaceCRLFFrom(s, 1, <<>>)

RECURSIVE replaceLFFrom(_, _, _)
replaceLFFrom(s, i, acc) ==
    IF i > Len(s) THEN acc
    ELSE IF s[i] = LF
         THEN replaceLFFrom(s, i + 1, acc \o <<CR, LF>>)
         ELSE replaceLFFrom(s, i + 1, Append(acc, s[i]))

\* s.replace(/\n/g, "\r\n")
replaceLF(s) == replaceLFFrom(s, 1, <<>>)

RECURSIVE splitFrom(_, _, _, _)
splitFrom(s, i, cur, acc) ==
    IF i > Len(s) THEN Append(acc, cur)
    ELSE IF s[i] = LF
         THEN splitFrom(s, i + 1, <<>>, Append(acc, cur))
         ELSE splitFrom(s, i + 1, Append(cur, s[i]), acc)

\* s.split("\n")
split(s) == splitFrom(s, 1, <<>>, <<>>)

RECURSIVE joinFrom(_, _, _, _)
joinFrom(lines, sep, i, acc) ==
    IF i > Len(lines) THEN acc
    ELSE joinFrom(lines, sep, i + 1,
                  IF i = 1 THEN lines[i] ELSE acc \o sep \o lines[i])

\* a variant of join that ends the last line too
joinTerminated(lines, sep) == joinFrom(lines, sep, 1, <<>>) \o sep

\* lines.join(sep)
join(lines, sep) == joinFrom(lines, sep, 1, <<>>)

RECURSIVE trimEnd(_)
trimEnd(s) ==
    IF Len(s) > 0 /\ IsWhiteSpace(s[Len(s)]) THEN trimEnd(SubSeq(s, 1, Len(s) - 1))
    ELSE s

RECURSIVE trimStart(_)
trimStart(s) ==
    IF Len(s) > 0 /\ IsWhiteSpace(s[1]) THEN trimStart(SubSeq(s, 2, Len(s)))
    ELSE s

\* String.prototype.trim
trim(s) == trimStart(trimEnd(s))

RECURSIVE toDecimal(_)
\* the decimal rendering of a non-negative integer in a template literal
toDecimal(n) ==
    IF n < 10 THEN <<48 + n>> ELSE Append(toDecimal(n \div 10), 48 + (n % 10))

RECURSIVE parseIntFrom(_, _, _)
parseIntFrom(s, i, acc) ==
    IF i > Len(s) THEN acc ELSE parseIntFrom(s, i + 1, acc * 10 + (s[i] - 48))

\* parseInt(digits, 10) on a string of decimal digits
parseInt(s) == parseIntFrom(s, 1, 0)

\* the length of the longest run of characters satisfying Class that starts at i
RECURSIVE runLen(_, _, _)
runLen(s, i, Class) ==
    IF i <= Len(s) /\ s[i] \in Class THEN 1 + runLen(s, i + 1, Class) ELSE 0

\* s.startsWith(p, i - 1)
startsWithAt(s, p, i) ==
    /\ i + Len(p) - 1 <= Len(s)
    /\ \A k \in 1..Len(p) : s[i + k - 1] = p[k]

----------------------------------------------------------------------------
(* Hash computation                                                        *)

RECURSIVE xor(_, _)
\* bitwise exclusive or of two naturals
xor(a, b) ==
    IF a = 0 THEN b
    ELSE IF b = 0 THEN a
    ELSE 2 * xor(a \div 2, b \div 2) + (((a % 2) + (b % 2)) % 2)

\* A uint32 is a pair <<hi, lo>> of 16-bit halves, hi * 2^16 + lo.

\* 2^32 - u modulo 2^32
negate32(u) ==
    IF u[2] = 0 THEN <<(65536 - u[1]) % 65536, 0>> ELSE <<65535 - u[1], 65536 - u[2]>>

\* a >= b for two uint32
geq32(a, b) == a[1] > b[1] \/ (a[1] = b[1] /\ a[2] >= b[2])

\* the low 32 bits of a * 0x01000193, 0x01000193 = 256 * 2^16 + 403
times32(a) ==
    LET p == a[2] * 403
    IN  << (a[1] * 403 + a[2] * 256 + (p \div 65536)) % 65536, p % 65536 >>

\* the number of low bits a double cannot hold of the product a * 0x01000193:
\* the product is < 2^53 below 536858017, < 2^54 below 1073716033 and
\* < 2^55 below 2147432066
droppedBits(a) ==
    IF geq32(a, <<32767, 13954>>) THEN 3
    ELSE IF geq32(a, <<16383, 39745>>) THEN 2
    ELSE IF geq32(a, <<8191, 52641>>) THEN 1
    ELSE 0

\* m rounded to the nearest multiple of 2^k, a tie to the multiple whose
\* quotient is even, modulo 2^32 (the rounding of an IEEE double product)
roundToEven(m, k) ==
    LET step == 2 ^ k
        rem == m[2] % step
        base == m[2] - rem
        up == rem * 2 > step \/ (rem * 2 = step /\ (m[2] \div step) % 2 = 1)
        lo == IF up THEN base + step ELSE base
    IN  IF lo = 65536 THEN <<(m[1] + 1) % 65536, 0>> ELSE <<m[1], lo>>

\* one round: hash ^= c; hash = (hash * 0x01000193) >>> 0
\* ^= leaves a signed 32-bit integer; * is the multiplication of doubles,
\* rounded when the product needs more than 53 bits; >>> 0 reduces the
\* rounded product modulo 2^32
fnvStep(h, c) ==
    LET u == <<xor(h[1], c \div 65536), xor(h[2], c % 65536)>>
        negative == u[1] >= 32768
        a == IF negative THEN negate32(u) ELSE u
        r == roundToEven(times32(a), droppedBits(a))
    IN  IF negative THEN negate32(r) ELSE r

RECURSIVE fnvFrom(_, _, _)
fnvFrom(str, i, h) ==
    IF i > Len(str) THEN h ELSE fnvFrom(str, i + 1, fnvStep(h, str[i]))

\* FNV offset basis 0x811c9dc5 = <<0x811c, 0x9dc5>>
fnv1aHash(str) == fnvFrom(str, 1, <<33052, 40389>>)

AdaptiveThreshold == 4096

getAdaptiveHashLength(lineCount) == IF lineCount <= AdaptiveThreshold THEN 3 ELSE 4

hexChar(d) == IF d < 10 THEN 48 + d ELSE 87 + d

\* the four hex digits of a 16-bit value
hex4(v) == << hexChar(v \div 4096), hexChar((v \div 256) % 16),
              hexChar((v \div 16) % 16), hexChar(v % 16) >>

\* a hash of the line as it is, trailing white space included
computeLineHashUntrimmed(idx, line, hashLen) ==
    LET input == toDecimal(idx) \o <<58>> \o line
        raw == fnv1aHash(input)
        digits == hex4(raw[1]) \o hex4(raw[2])
    IN  IF hashLen <= 0 THEN <<48>>
        ELSE IF hashLen <= 8 THEN SubSeq(digits, 9 - hashLen, 8)
        ELSE [i \in 1..(hashLen - 8) |-> 48] \o digits

\* (raw % 16^hashLen).toString(16).padStart(hashLen, "0")
computeLineHash(idx, line, hashLen) ==
    LET trimmed == trimEnd(line)
        input == toDecimal(idx) \o <<58>> \o trimmed
        raw == fnv1aHash(input)
        digits == hex4(raw[1]) \o hex4(raw[2])
    IN  IF hashLen <= 0 THEN <<48>>
        ELSE IF hashLen <= 8 THEN SubSeq(digits, 9 - hashLen, 8)
        ELSE [i \in 1..(hashLen - 8) |-> 48] \o digits

----------------------------------------------------------------------------
(* Annotator                                                               *)

\* a prefix argument: a string, false, or undefined
PrefixString(s) == [kind |-> "string", str |-> s]
PrefixFalse == [kind |-> "false", str |-> <<>>]
PrefixUndefined == [kind |-> "undefined", str |-> <<>>]

\* "#HL "
DEFAULT_PREFIX == <<35, 72, 76, 32>>

effectivePrefix(prefix) ==
    IF prefix.kind = "undefined" THEN DEFAULT_PREFIX
    ELSE IF prefix.kind = "false" THEN <<>>
    ELSE prefix.str

RECURSIVE formatLoop(_, _, _, _, _)
\* the collision-detecting loop: seen is the set of hashes already used
formatLoop(lines, effectiveLen, idx, seen, hashes) ==
    IF idx >= Len(lines) THEN hashes
    ELSE LET hash == computeLineHash(idx, lines[idx + 1], effectiveLen)
         IN  IF hash \in seen
             THEN LET longerLen == IF effectiveLen + 1 < 8 THEN effectiveLen + 1 ELSE 8
                  IN  formatLoop(lines, effectiveLen, idx + 1, seen,
                                 Append(hashes, computeLineHash(idx, lines[idx + 1], longerLen)))
             ELSE formatLoop(lines, effectiveLen, idx + 1, seen \cup {hash},
                             Append(hashes, hash))

\* the hashes formatFileWithHashes gives the lines of a normalized document
formatHashes(lines, hashLen) ==
    LET effectiveLen == IF hashLen # 0 /\ hashLen >= 3 THEN hashLen
                        ELSE getAdaptiveHashLength(Len(lines))
    IN  formatLoop(lines, effectiveLen, 0, {}, <<>>)

formatFileWithHashes(content, hashLen, prefix) ==
    LET normalized == IF includesCRLF(content) THEN replaceCRLF(content) ELSE content
        lines == split(normalized)
        hashes == formatHashes(lines, hashLen)
        pfx == effectivePrefix(prefix)
    IN  join([idx \in 1..Len(lines) |->
                 pfx \o toDecimal(idx) \o <<58>> \o hashes[idx] \o <<124>> \o lines[idx]],
             <<LF>>)

\* the end position of  <prefix>\d+:[0-9a-f]{2,8}\|  matched at position i of
\* line, or 0 when it does not match there
tagEndAt(line, pfx, i) ==
    IF ~startsWithAt(line, pfx, i) THEN 0
    ELSE LET d == i + Len(pfx)
             nd == runLen(line, d, Digit)
             c == d + nd
             nh == runLen(line, c + 1, LowerHex)
             bar == c + 1 + nh
         IN  IF /\ nd >= 1
                /\ c <= Len(line) /\ line[c] = 58
                /\ nh >= 2 /\ nh <= 8
                /\ bar <= Len(line) /\ line[bar] = 124
             THEN bar ELSE 0

\* line.match(/^([+ \-])?<prefix>\d+:[0-9a-f]{2,8}\|/) and the rewrite of
\* one line: the patch marker is kept, the tag removed
stripLine(line, pfx) ==
    LET withMarker == IF Len(line) >= 1 /\ line[1] \in {43, 32, 45}
                      THEN tagEndAt(line, pfx, 2) ELSE 0
        without == tagEndAt(line, pfx, 1)
    IN  IF withMarker > 0 THEN <<line[1]>> \o SubSeq(line, withMarker + 1, Len(line))
        ELSE IF without > 0 THEN SubSeq(line, without + 1, Len(line))
        ELSE line

stripHashes(content, prefix) ==
    LET pfx == effectivePrefix(prefix)
        lineEnding == detectLineEnding(content)
        normalized == IF lineEnding = <<CR, LF>> THEN replaceCRLF(content) ELSE content
        lines == split(normalized)
        result == join([i \in 1..Len(lines) |-> stripLine(lines[i], pfx)], <<LF>>)
    IN  IF lineEnding = <<CR, LF>> THEN replaceLF(result) ELSE result

----------------------------------------------------------------------------
(* Reference parsing                                                       *)

\* an optional string argument: undefined, or a string
Undefined == [def |-> FALSE, str |-> <<>>]
Some(s) == [def |-> TRUE, str |-> s]

\* (\d+):([hex]{2,8}) matched at position i of s: the digits, the hash and the
\* position of the last character matched; Hex is the class of the hash
\* characters. The hash run is taken whole: in every use the next token (the
\* end of input or "|") is not a hash character.
refAt(s, i, Hex) ==
    LET nd == runLen(s, i, Digit)
        c == i + nd
        nh == runLen(s, c + 1, Hex)
    IN  IF nd >= 1 /\ c <= Len(s) /\ s[c] = 58 /\ nh >= 2 /\ nh <= 8
        THEN [ok |-> TRUE, digits |-> SubSeq(s, i, c - 1),
              hash |-> SubSeq(s, c + 1, c + nh), end |-> c + nh]
        ELSE [ok |-> FALSE]

\* ref.match(/^(\d+):([0-9a-f]{2,8})$/)
parseHashRef(ref) ==
    LET m == refAt(ref, 1, LowerHex)
    IN  IF m.ok /\ m.end = Len(ref)
        THEN [ok |-> TRUE, line |-> parseInt(m.digits), hash |-> m.hash]
        ELSE [ok |-> FALSE, error |-> [kind |-> "InvalidReference", ref |-> ref]]

\* (\d+):([0-9a-f]{2,8})\|.*$ under /i matched at position i of s
annotatedAt(s, i) ==
    LET m == refAt(s, i, AnyHex)
    IN  IF /\ m.ok
           /\ m.end + 1 <= Len(s) /\ s[m.end + 1] = 124
           /\ \A k \in (m.end + 2)..Len(s) : s[k] \notin LineTerminator
        THEN m ELSE [ok |-> FALSE]

canonicalRef(m) == toDecimal(parseInt(m.digits)) \o <<58>> \o toLowerCase(m.hash)

normalizeHashRef(ref) ==
    LET trimmed == trim(ref)
        plain == refAt(trimmed, 1, AnyHex)
        \* the optional group (?:[#\w]*\s+)? taken, then skipped
        g == runLen(trimmed, 1, HashOrWord)
        w == runLen(trimmed, g + 1, WhiteSpace)
        grouped == IF w >= 1 THEN annotatedAt(trimmed, g + w + 1) ELSE [ok |-> FALSE]
        bare == annotatedAt(trimmed, 1)
    IN  IF plain.ok /\ plain.end = Len(trimmed) THEN [ok |-> TRUE, ref |-> canonicalRef(plain)]
        ELSE IF grouped.ok THEN [ok |-> TRUE, ref |-> canonicalRef(grouped)]
        ELSE IF bare.ok THEN [ok |-> TRUE, ref |-> canonicalRef(bare)]
        ELSE [ok |-> FALSE, error |-> [kind |-> "InvalidReference", ref |-> ref]]

----------------------------------------------------------------------------
(* Hash verification                                                       *)

\* the optional pre-split lines argument of verifyHash
NoLines == [given |-> FALSE, val |-> <<>>]
Lines(l) == [given |-> TRUE, val |-> l]

\* Variants of verifyHash that the properties below must tell from it.
\* Without the comparison of hashes: every line in range is valid.
verifyHashUnchecked(lineNumber, hash, currentContent, hashLen, lines) ==
    LET contentLines == IF lines.given THEN lines.val ELSE split(currentContent)
    IN  IF lineNumber < 1 \/ lineNumber > Len(contentLines)
        THEN [valid |-> FALSE,
              message |-> [kind |-> "out of range", line |-> lineNumber,
                           count |-> Len(contentLines)]]
        ELSE [valid |-> TRUE]

\* With the length taken from the line count instead of the reference.
verifyHashAdaptive(lineNumber, hash, currentContent, hashLen, lines) ==
    LET contentLines == IF lines.given THEN lines.val ELSE split(currentContent)
        effectiveLen == IF hashLen # 0 /\ hashLen >= 2 THEN hashLen
                        ELSE getAdaptiveHashLength(Len(contentLines))
    IN  IF lineNumber < 1 \/ lineNumber > Len(contentLines)
        THEN [valid |-> FALSE,
              message |-> [kind |-> "out of range", line |-> lineNumber,
                           count |-> Len(contentLines)]]
        ELSE LET idx == lineNumber - 1
                 actualHash == computeLineHash(idx, contentLines[idx + 1], effectiveLen)
             IN  IF actualHash # hash
                 THEN [valid |-> FALSE, expected |-> hash, actual |-> actualHash,
                       message |-> [kind |-> "Hash mismatch", line |-> lineNumber,
                                    expected |-> hash, actual |-> actualHash]]
                 ELSE [valid |-> TRUE]

\* With line 0 taken to be in range and read as the empty line.
verifyHashFromZero(lineNumber, hash, currentContent, hashLen, lines) ==
    LET contentLines == IF lines.given THEN lines.val ELSE split(currentContent)
        effectiveLen == IF hashLen # 0 /\ hashLen >= 2 THEN hashLen ELSE Len(hash)
    IN  IF lineNumber < 0 \/ lineNumber > Len(contentLines)
        THEN [valid |-> FALSE,
              message |-> [kind |-> "out of range", line |-> lineNumber,
                           count |-> Len(contentLines)]]
        ELSE LET idx == lineNumber - 1
                 actualHash == computeLineHash(idx, IF lineNumber = 0 THEN <<>>
                                                    ELSE contentLines[idx + 1], effectiveLen)
             IN  IF actualHash # hash
                 THEN [valid |-> FALSE, expected |-> hash, actual |-> actualHash,
                       message |-> [kind |-> "Hash mismatch", line |-> lineNumber,
                                    expected |-> hash, actual |-> actualHash]]
                 ELSE [valid |-> TRUE]

\* hashLen 0 stands for undefined / 0 (both falsy)
verifyHash(lineNumber, hash, currentContent, hashLen, lines) ==
    LET contentLines == IF lines.given THEN lines.val ELSE split(currentContent)
        effectiveLen == IF hashLen # 0 /\ hashLen >= 2 THEN hashLen ELSE Len(hash)
    IN  IF lineNumber < 1 \/ lineNumber > Len(contentLines)
        THEN [valid |-> FALSE,
              message |-> [kind |-> "out of range", line |-> lineNumber,
                           count |-> Len(contentLines)]]
        ELSE LET idx == lineNumber - 1
                 actualHash == computeLineHash(idx, contentLines[idx + 1], effectiveLen)
             IN  IF actualHash # hash
                 THEN [valid |-> FALSE, expected |-> hash, actual |-> actualHash,
                       message |-> [kind |-> "Hash mismatch", line |-> lineNumber,
                                    expected |-> hash, actual |-> actualHash]]
                 ELSE [valid |-> TRUE]

----------------------------------------------------------------------------
(* Range operations                                                        *)

\* a variant of resolveRange that verifies both references before it
\* compares their lines
resolveRangeVerifyFirst(startRef, endRef, content, hashLen) ==
    LET start == parseHashRef(startRef)
        end == parseHashRef(endRef)
        lineEnding == detectLineEnding(content)
        normalized == IF lineEnding = <<CR, LF>> THEN replaceCRLF(content) ELSE content
        lines == split(normalized)
        startVerify == verifyHash(start.line, start.hash, normalized, hashLen, Lines(lines))
        endVerify == verifyHash(end.line, end.hash, normalized, hashLen, Lines(lines))
        rangeLines == SubSeq(lines, start.line, end.line)
    IN  IF ~start.ok THEN [ok |-> FALSE, error |-> start.error]
        ELSE IF ~end.ok THEN [ok |-> FALSE, error |-> end.error]
        ELSE IF ~startVerify.valid
             THEN [ok |-> FALSE, error |-> [kind |-> "StartInvalid", verify |-> startVerify]]
        ELSE IF ~endVerify.valid
             THEN [ok |-> FALSE, error |-> [kind |-> "EndInvalid", verify |-> endVerify]]
        ELSE IF start.line > end.line
             THEN [ok |-> FALSE, error |-> [kind |-> "InvalidRange",
                                            start |-> start.line, end |-> end.line]]
        ELSE [ok |-> TRUE, startLine |-> start.line, endLine |-> end.line,
              lines |-> rangeLines, content |-> join(rangeLines, lineEnding)]

resolveRange(startRef, endRef, content, hashLen) ==
    LET start == parseHashRef(startRef)
        end == parseHashRef(endRef)
        lineEnding == detectLineEnding(content)
        normalized == IF lineEnding = <<CR, LF>> THEN replaceCRLF(content) ELSE content
        lines == split(normalized)
        startVerify == verifyHash(start.line, start.hash, normalized, hashLen, Lines(lines))
        endVerify == verifyHash(end.line, end.hash, normalized, hashLen, Lines(lines))
        rangeLines == SubSeq(lines, start.line, end.line)
    IN  IF ~start.ok THEN [ok |-> FALSE, error |-> start.error]
        ELSE IF ~end.ok THEN [ok |-> FALSE, error |-> end.error]
        ELSE IF start.line > end.line
             THEN [ok |-> FALSE, error |-> [kind |-> "InvalidRange",
                                            start |-> start.line, end |-> end.line]]
        ELSE IF ~startVerify.valid
             THEN [ok |-> FALSE, error |-> [kind |-> "StartInvalid", verify |-> startVerify]]
        ELSE IF ~endVerify.valid
             THEN [ok |-> FALSE, error |-> [kind |-> "EndInvalid", verify |-> endVerify]]
        ELSE [ok |-> TRUE, startLine |-> start.line, endLine |-> end.line,
              lines |-> rangeLines, content |-> join(rangeLines, lineEnding)]

\* a variant of replaceRange in which an empty replacement removes the range
replaceRangeRemoving(startRef, endRef, content, replacement, hashLen) ==
    LET lineEnding == detectLineEnding(content)
        normalized == IF lineEnding = <<CR, LF>> THEN replaceCRLF(content) ELSE content
        range == resolveRange(startRef, endRef, normalized, hashLen)
        lines == split(normalized)
        before == SubSeq(lines, 1, range.startLine - 1)
        after == SubSeq(lines, range.endLine + 1, Len(lines))
        replacementLines == IF replacement = <<>> THEN <<>> ELSE split(replacement)
        result == join(before \o replacementLines \o after, <<LF>>)
    IN  IF ~range.ok THEN [ok |-> FALSE, error |-> range.error]
        ELSE [ok |-> TRUE,
              content |-> IF lineEnding = <<CR, LF>> THEN replaceLF(result) ELSE result]

\* replaceRange once the range is resolved: the lines of the range give way to
\* the lines of the replacement, and the line ending of the input is restored
replaceResolved(range, normalized, replacement, lineEnding) ==
    LET lines == split(normalized)
        before == SubSeq(lines, 1, range.startLine - 1)
        after == SubSeq(lines, range.endLine + 1, Len(lines))
        replacementLines == split(replacement)
        result == join(before \o replacementLines \o after, <<LF>>)
    IN  IF ~range.ok THEN [ok |-> FALSE, error |-> range.error]
        ELSE [ok |-> TRUE,
              content |-> IF lineEnding = <<CR, LF>> THEN replaceLF(result) ELSE result]

replaceRange(startRef, endRef, content, replacement, hashLen) ==
    LET lineEnding == detectLineEnding(content)
        normalized == IF lineEnding = <<CR, LF>> THEN replaceCRLF(content) ELSE content
    IN  replaceResolved(resolveRange(startRef, endRef, normalized, hashLen),
                        normalized, replacement, lineEnding)

----------------------------------------------------------------------------
(* Edit engine                                                             *)

Operations == {"replace", "delete", "insert_before", "insert_after"}

\* input: [operation, startRef (a string), endRef, replacement (optional strings)]
applyHashEdit(input, content, hashLen) ==
    LET lineEnding == detectLineEnding(content)
        workContent == IF lineEnding = <<CR, LF>> THEN replaceCRLF(content) ELSE content
        normalizedStart == normalizeHashRef(input.startRef)
        start == parseHashRef(normalizedStart.ref)
        lines == split(workContent)
        startVerify == verifyHash(start.line, start.hash, workContent, hashLen, Lines(lines))
        \* insert_before / insert_after
        insertionLines == split(input.replacement.str)
        insertIndex == IF input.operation = "insert_before" THEN start.line - 1 ELSE start.line
        inserted == join(SubSeq(lines, 1, insertIndex) \o insertionLines
                           \o SubSeq(lines, insertIndex + 1, Len(lines)), <<LF>>)
        \* replace / delete
        normalizedEnd == normalizeHashRef(IF input.endRef.def THEN input.endRef.str
                                          ELSE input.startRef)
        end == parseHashRef(normalizedEnd.ref)
        endVerify == verifyHash(end.line, end.hash, workContent, hashLen, Lines(lines))
        replacement == IF input.operation = "delete" THEN Some(<<>>) ELSE input.replacement
        before == SubSeq(lines, 1, start.line - 1)
        after == SubSeq(lines, end.line + 1, Len(lines))
        replacementLines == IF input.operation = "delete" THEN <<>> ELSE split(replacement.str)
        next == join(before \o replacementLines \o after, <<LF>>)
        Missing == [ok |-> FALSE, error |-> [kind |-> "MissingReplacement",
                                             operation |-> input.operation]]
    IN  IF ~normalizedStart.ok THEN [ok |-> FALSE, error |-> normalizedStart.error]
        ELSE IF ~start.ok THEN [ok |-> FALSE, error |-> start.error]
        ELSE IF ~startVerify.valid
             THEN [ok |-> FALSE, error |-> [kind |-> "StartInvalid", verify |-> startVerify]]
        ELSE IF input.operation \in {"insert_before", "insert_after"}
             THEN IF ~input.replacement.def THEN Missing
                  ELSE [ok |-> TRUE, operation |-> input.operation,
                        startLine |-> start.line, endLine |-> start.line,
                        content |-> IF lineEnding = <<CR, LF>> THEN replaceLF(inserted)
                                    ELSE inserted]
        ELSE IF ~normalizedEnd.ok THEN [ok |-> FALSE, error |-> normalizedEnd.error]
        ELSE IF ~end.ok THEN [ok |-> FALSE, error |-> end.error]
        ELSE IF start.line > end.line
             THEN [ok |-> FALSE, error |-> [kind |-> "InvalidRange",
                                            start |-> start.line, end |-> end.line]]
        ELSE IF ~endVerify.valid
             THEN [ok |-> FALSE, error |-> [kind |-> "EndInvalid", verify |-> endVerify]]
        ELSE IF ~replacement.def THEN Missing
        ELSE [ok |-> TRUE, operation |-> input.operation,
              startLine |-> start.line, endLine |-> end.line,
              content |-> IF lineEnding = <<CR, LF>> THEN replaceLF(next) ELSE next]

----------------------------------------------------------------------------
(* Inputs                                                                  *)

\* all strings over Alphabet of length at most n
StringsUpTo(Alphabet, n) == UNION {[1..k -> Alphabet] : k \in 0..n}

MaxDocLen == 4
MaxVerLen == 3
MaxEditLen == 3

\* "c", "e"
Letters == {99, 101}

\* documents whose lines 1 and 2 have the same 3-digit hash:
\* "ceccc\neee", "ceccee\neec", "ceccc\r\neee", "ceccc\neee\nc",
\* and "bv\nmu\nhf", whose three lines have the 3-digit hash 808
CollisionDocs ==
    { <<99, 101, 99, 99, 99, LF, 101, 101, 101>>,
      <<99, 101, 99, 99, 101, 101, LF, 101, 101, 99>>,
      <<99, 101, 99, 99, 99, CR, LF, 101, 101, 101>>,
      <<99, 101, 99, 99, 99, LF, 101, 101, 101, LF, 99>>,
      <<98, 118, LF, 109, 117, LF, 104, 102>> }

\* content that carries tags, well-formed and not, under the default prefix,
\* under ">> " and without prefix:
\*   "#HL 1:ab|c"
\*   "+#HL 1:ab|c"
\*   "-#HL 1:abc|"
\*   " #HL 1:ab|c"
\*   "#HL 1:a|c"
\*   "#HL 1:AB|c"
\*   "#HL :ab|c"
\*   "++#HL 1:ab|c"
\*   "c#HL 1:ab|c"
\*   "#HL 1:ab"
\*   "1:ab|c"
\*   "+1:ab|c"
\*   ">> 1:ab|c"
\*   "->> 2:abc|c"
\*   "12:abcdef01|c"
\*   "1:abcdef012|c"
\*   "1:ab|2:cd|c"
\*   "1:ab|\nc\n2:cd|"
\*   "1:ab|\r\n-2:cd|"
\*   "1:ab|\r\nc\ne"
\*   "#HL 1:ab|\nc"
\*   "#HL 1:ab|\r\nc"
TaggedDocs ==
    { <<35, 72, 76, 32, 49, 58, 97, 98, 124, 99>>,
      <<43, 35, 72, 76, 32, 49, 58, 97, 98, 124, 99>>,
      <<45, 35, 72, 76, 32, 49, 58, 97, 98, 99, 124>>,
      <<32, 35, 72, 76, 32, 49, 58, 97, 98, 124, 99>>,
      <<35, 72, 76, 32, 49, 58, 97, 124, 99>>,
      <<35, 72, 76, 32, 49, 58, 65, 66, 124, 99>>,
      <<35, 72, 76, 32, 58, 97, 98, 124, 99>>,
      <<43, 43, 35, 72, 76, 32, 49, 58, 97, 98, 124, 99>>,
      <<99, 35, 72, 76, 32, 49, 58, 97, 98, 124, 99>>,
      <<35, 72, 76, 32, 49, 58, 97, 98>>,
      <<49, 58, 97, 98, 124, 99>>,
      <<43, 49, 58, 97, 98, 124, 99>>,
      <<62, 62, 32, 49, 58, 97, 98, 124, 99>>,
      <<45, 62, 62, 32, 50, 58, 97, 98, 99, 124, 99>>,
      <<49, 50, 58, 97, 98, 99, 100, 101, 102, 48, 49, 124, 99>>,
      <<49, 58, 97, 98, 99, 100, 101, 102, 48, 49, 50, 124, 99>>,
      <<49, 58, 97, 98, 124, 50, 58, 99, 100, 124, 99>>,
      <<49, 58, 97, 98, 124, 10, 99, 10, 50, 58, 99, 100, 124>>,
      <<49, 58, 97, 98, 124, 13, 10, 45, 50, 58, 99, 100, 124>>,
      <<49, 58, 97, 98, 124, 13, 10, 99, 10, 101>>,
      <<35, 72, 76, 32, 49, 58, 97, 98, 124, 10, 99>>,
      <<35, 72, 76, 32, 49, 58, 97, 98, 124, 13, 10, 99>> }

\* the documents given to the annotator: every short string over two letters,
\* CR and LF (LF-only, CRLF-only and mixed line endings, lone CRs), and the
\* colliding documents and the tagged ones
Docs == StringsUpTo(Letters \cup {CR, LF}, MaxDocLen) \cup CollisionDocs \cup TaggedDocs

\* hash length overrides: 0 (adaptive), below, inside and above the range 3..8
HashLens == {0, 2, 3, 4, 8, 9}

\* ">> "
CustomPrefix == <<62, 62, 32>>

Prefixes == {PrefixUndefined, PrefixFalse, PrefixString(CustomPrefix)}

----------------------------------------------------------------------------
(* State                                                                   *)

\* ann: a run of the annotator on one document under one configuration
\* ver: a reference taken on one document and verified against another
\* ed : one applyHashEdit call
AnnOff == [phase |-> "off"]
VerOff == [phase |-> "off"]
EdOff == [phase |-> "off"]

ToolOff ==
    /\ disk = <<>>
    /\ cache = <<>>
    /\ meta = <<>>
    /\ call = [pc |-> "off"]

toolVars == <<disk, cache, meta, call>>

----------------------------------------------------------------------------
(* The annotator on one document: format, strip, and the use of an emitted *)
(* reference under the same configuration (createHashline's methods)       *)

AnnInit ==
    /\ ann \in {[phase |-> "input", text |-> T, hashLen |-> L, prefix |-> P] :
                   T \in Docs, L \in HashLens, P \in Prefixes}
    /\ ver = VerOff
    /\ ed = EdOff
    /\ ToolOff

Format ==
    /\ ann.phase = "input"
    /\ ann' = [phase |-> "formatted", text |-> ann.text, hashLen |-> ann.hashLen,
               prefix |-> ann.prefix,
               formatted |-> formatFileWithHashes(ann.text, ann.hashLen, ann.prefix)]
    /\ UNCHANGED <<ver, ed, toolVars>>

Strip ==
    /\ ann.phase = "formatted"
    /\ ann' = [phase |-> "stripped", text |-> ann.text, hashLen |-> ann.hashLen,
               prefix |-> ann.prefix, formatted |-> ann.formatted,
               stripped |-> stripHashes(ann.formatted, ann.prefix)]
    /\ UNCHANGED <<ver, ed, toolVars>>

\* the reference "<n>:<hash>" of an emitted line: what stands between the
\* prefix and the first "|"
emittedRef(line, prefix) ==
    LET pfx == effectivePrefix(prefix)
        bar == CHOOSE k \in (Len(pfx) + 1)..Len(line) :
                  line[k] = 124 /\ \A j \in (Len(pfx) + 1)..(k - 1) : line[j] # 124
    IN  SubSeq(line, Len(pfx) + 1, bar - 1)

\* the hash part of "<n>:<hash>"
refHash(ref) ==
    LET colon == CHOOSE k \in 1..Len(ref) : ref[k] = 58 /\ \A j \in 1..(k - 1) : ref[j] # 58
    IN  SubSeq(ref, colon + 1, Len(ref))

\* the nth emitted reference is verified, and used as the start reference of
\* an edit, against the unchanged document with the configured hashLength
UseEmittedRef(n, op) ==
    /\ ann.phase = "formatted"
    /\ n \in 1..Len(split(ann.formatted))
    /\ LET ref == emittedRef(split(ann.formatted)[n], ann.prefix)
       IN  ann' = [phase |-> "used", text |-> ann.text, hashLen |-> ann.hashLen,
                   prefix |-> ann.prefix, formatted |-> ann.formatted,
                   line |-> n, ref |-> ref,
                   verify |-> verifyHash(n, refHash(ref), ann.text, ann.hashLen, NoLines),
                   edit |-> applyHashEdit([operation |-> op, startRef |-> ref,
                                           endRef |-> Undefined,
                                           replacement |-> Some(<<101>>)],
                                          ann.text, ann.hashLen)]
    /\ UNCHANGED <<ver, ed, toolVars>>

\* a replace of one line of text whose reference is given as startRef, or
\* as endRef next to the bare reference as startRef
lineEdit(text, hashLen, given, ref, asEnd) ==
    applyHashEdit([operation |-> "replace",
                   startRef |-> IF asEnd THEN ref ELSE given,
                   endRef |-> IF asEnd THEN Some(given) ELSE Undefined,
                   replacement |-> Some(<<101>>)],
                  text, hashLen)

\* the record of one use of an emitted line
lineUsed(n, annotated, ref, asEnd, normalized, edit) ==
    [phase |-> "line used", text |-> ann.text, hashLen |-> ann.hashLen,
     prefix |-> ann.prefix, formatted |-> ann.formatted,
     line |-> n, annotated |-> annotated, ref |-> ref, asEnd |-> asEnd,
     normalized |-> normalized, edit |-> edit]

\* the nth emitted line is passed whole, as the start or as the end reference
\* of a replace of line n
UseEmittedLine(n, asEnd) ==
    /\ ann.phase = "formatted"
    /\ n \in 1..Len(split(ann.formatted))
    /\ ann' = lineUsed(n, split(ann.formatted)[n],
                       emittedRef(split(ann.formatted)[n], ann.prefix), asEnd,
                       normalizeHashRef(split(ann.formatted)[n]),
                       lineEdit(ann.text, ann.hashLen, split(ann.formatted)[n],
                                emittedRef(split(ann.formatted)[n], ann.prefix), asEnd))
    /\ UNCHANGED <<ver, ed, toolVars>>

\* stripHashes on the document as given
StripRaw ==
    /\ ann.phase = "input"
    /\ ann' = [phase |-> "raw stripped", text |-> ann.text, hashLen |-> ann.hashLen,
               prefix |-> ann.prefix, stripped |-> stripHashes(ann.text, ann.prefix)]
    /\ UNCHANGED <<ver, ed, toolVars>>

AnnNext ==
    \/ Format
    \/ Strip
    \/ StripRaw
    \/ \E n \in 1..(MaxDocLen + 1), op \in {"replace", "insert_after"} : UseEmittedRef(n, op)
    \/ \E n \in 1..(MaxDocLen + 1), asEnd \in BOOLEAN : UseEmittedLine(n, asEnd)

SpecAnnotate == AnnInit /\ [][AnnNext]_vars

----------------------------------------------------------------------------
(* Claims on the annotator                                                 *)

\* C1: for every text T, every explicit hash length L in {3,4} and every
\* prefix P, stripHashes(formatFileWithHashes(T, L, P), P) is exactly T,
\* whatever the line-ending style of T.
C1_RoundTrip ==
    (ann.phase = "stripped" /\ ann.hashLen \in {3, 4}) => ann.stripped = ann.text

\* C6: every reference emitted by formatFileWithHashes for T verifies as valid
\* against the unchanged T through verifyHash and applyHashEdit called with
\* the same hashLength and prefix configuration.
C6_EmittedRefsVerify ==
    ann.phase = "used" => (ann.verify.valid /\ ann.edit.ok)

----------------------------------------------------------------------------
(* A reference verified against a document                                 *)

\* documents for verifyHash: every short string over "c" and LF; documents
\* with trailing CRs, "\r", "c\r", "\r\n", "c\r\nc"; and two one-line
\* documents, "ccc" and "eeeccce", whose 3-digit hashes are equal
VerDocs ==
    StringsUpTo({99, LF}, MaxVerLen)
        \cup { <<CR>>, <<99, CR>>, <<CR, LF>>, <<99, CR, LF, 99>> }
        \cup { <<99, 99, 99>>, <<101, 101, 101, 99, 99, 99, 101>> }

\* the lengths at which the caller computes a reference
RefLens == {2, 3, 8}

\* a hash that is no line's hash: "aaa"
ForgedHash == <<97, 97, 97>>

\* lines appended to a document to take it past the adaptive threshold
Filler == [i \in 1..(AdaptiveThreshold + 1) |-> <<>>]

VerInit ==
    /\ ver \in {[phase |-> "input", content |-> C] : C \in VerDocs}
    /\ ann = AnnOff
    /\ ed = EdOff
    /\ ToolOff

\* the caller computes the reference of line n of the document at length L
TakeRef(n, L) ==
    /\ ver.phase = "input"
    /\ n \in 1..Len(split(ver.content))
    /\ ver' = [phase |-> "ref", content |-> ver.content, taken |-> TRUE, line |-> n,
               hash |-> computeLineHash(n - 1, split(ver.content)[n], L)]
    /\ UNCHANGED <<ann, ed, toolVars>>

\* the caller makes up a reference
ForgeRef(n) ==
    /\ ver.phase = "input"
    /\ ver' = [phase |-> "ref", content |-> ver.content, taken |-> FALSE, line |-> n,
               hash |-> ForgedHash]
    /\ UNCHANGED <<ann, ed, toolVars>>

\* verifyHash(line, hash, current, hashLen) on a document that may have
\* changed; grown: the current document is given pre-split, followed by more
\* lines than the adaptive threshold. base is the result on the document the
\* reference was made with.
Verify(current, hashLen, grown) ==
    /\ ver.phase = "ref"
    /\ ver' = [phase |-> "verified", content |-> ver.content, taken |-> ver.taken,
               line |-> ver.line, hash |-> ver.hash,
               current |-> current, hashLen |-> hashLen, grown |-> grown,
               result |-> verifyHash(ver.line, ver.hash, current, hashLen,
                                     IF grown THEN Lines(split(current) \o Filler)
                                     ELSE NoLines),
               base |-> verifyHash(ver.line, ver.hash, ver.content, hashLen, NoLines)]
    /\ UNCHANGED <<ann, ed, toolVars>>

VerNext ==
    \/ \E n \in 1..(MaxVerLen + 1), L \in RefLens : TakeRef(n, L)
    \/ \E n \in {0, 1, 2, MaxVerLen + 2} : ForgeRef(n)
    \/ \E current \in VerDocs, hashLen \in {0, 4} : Verify(current, hashLen, FALSE)
    \/ \E current \in VerDocs : Verify(current, 0, TRUE)

SpecVerify == VerInit /\ [][VerNext]_vars

----------------------------------------------------------------------------
(* One applyHashEdit call                                                  *)

\* documents for applyHashEdit: every short string over "c", CR and LF, and
\* two documents of three different lines, "c\ne\ncc" and "c\r\ne\r\ncc"
EditDocs ==
    StringsUpTo({99, CR, LF}, MaxEditLen)
        \cup { <<99, LF, 101, LF, 99, 99>>, <<99, CR, LF, 101, CR, LF, 99, 99>> }

bareRef(n, hash) == toDecimal(n) \o <<58>> \o hash

\* the references a caller holds for a document: the bare 3-digit reference
\* of every line, the first annotated line as emitted under the default
\* configuration, a stale reference "2:aaa" and a malformed one "x"
EditRefs(content) ==
    LET lines == split(IF includesCRLF(content) THEN replaceCRLF(content) ELSE content)
    IN  {bareRef(n, computeLineHash(n - 1, lines[n], 3)) : n \in 1..Len(lines)}
          \cup {split(formatFileWithHashes(content, 0, PrefixUndefined))[1]}
          \cup {<<50, 58, 97, 97, 97>>, <<120>>}

\* undefined, "", "e", "e\nc", "e\r\nc"
Replacements ==
    {Undefined, Some(<<>>), Some(<<101>>), Some(<<101, LF, 99>>), Some(<<101, CR, LF, 99>>)}

EdInit ==
    /\ ed \in {[phase |-> "input", content |-> C, refs |-> EditRefs(C)] : C \in EditDocs}
    /\ ann = AnnOff
    /\ ver = VerOff
    /\ ToolOff

\* a variant of ApplyEdit in which an insertion lands at the top of the
\* document
ApplyEditAtTop(input, hashLen) ==
    /\ ed.phase = "input"
    /\ ed' = [phase |-> "applied", content |-> ed.content, input |-> input,
              hashLen |-> hashLen,
              result |-> IF /\ input.operation \in {"insert_before", "insert_after"}
                            /\ applyHashEdit(input, ed.content, hashLen).ok
                         THEN [applyHashEdit(input, ed.content, hashLen) EXCEPT
                                 !.content = input.replacement.str \o <<LF>> \o ed.content]
                         ELSE applyHashEdit(input, ed.content, hashLen)]
    /\ UNCHANGED <<ann, ver, toolVars>>

\* a variant of ApplyEdit in which the empty replacement counts as missing
ApplyEditFalsyReplacement(input, hashLen) ==
    /\ ed.phase = "input"
    /\ ed' = [phase |-> "applied", content |-> ed.content, input |-> input,
              hashLen |-> hashLen,
              result |-> applyHashEdit(IF input.replacement = Some(<<>>)
                                       THEN [input EXCEPT !.replacement = Undefined]
                                       ELSE input,
                                       ed.content, hashLen)]
    /\ UNCHANGED <<ann, ver, toolVars>>

\* a variant of ApplyEdit in which an insertion parses endRef too
ApplyEditParsingEnd(input, hashLen) ==
    /\ ed.phase = "input"
    /\ ed' = [phase |-> "applied", content |-> ed.content, input |-> input,
              hashLen |-> hashLen,
              result |-> IF /\ input.operation \in {"insert_before", "insert_after"}
                            /\ input.endRef.def
                            /\ ~normalizeHashRef(input.endRef.str).ok
                         THEN [ok |-> FALSE, error |-> normalizeHashRef(input.endRef.str).error]
                         ELSE applyHashEdit(input, ed.content, hashLen)]
    /\ UNCHANGED <<ann, ver, toolVars>>

ApplyEdit(input, hashLen) ==
    /\ ed.phase = "input"
    /\ ed' = [phase |-> "applied", content |-> ed.content, input |-> input,
              hashLen |-> hashLen, result |-> applyHashEdit(input, ed.content, hashLen)]
    /\ UNCHANGED <<ann, ver, toolVars>>

\* resolveRange(startRef, endRef, content, hashLen)
ResolveRange(startRef, endRef, hashLen) ==
    /\ ed.phase = "input"
    /\ ed' = [phase |-> "resolved", content |-> ed.content, startRef |-> startRef,
              endRef |-> endRef, hashLen |-> hashLen,
              result |-> resolveRange(startRef, endRef, ed.content, hashLen)]
    /\ UNCHANGED <<ann, ver, toolVars>>

EdNext ==
    /\ ed.phase = "input"
    /\ \/ \E op \in Operations, startRef \in ed.refs,
             endRef \in {Undefined} \cup {Some(r) : r \in ed.refs},
             replacement \in Replacements, hashLen \in {0, 4} :
                ApplyEdit([operation |-> op, startRef |-> startRef, endRef |-> endRef,
                           replacement |-> replacement], hashLen)
       \/ \E startRef \in ed.refs, endRef \in ed.refs, hashLen \in {0, 4} :
                ResolveRange(startRef, endRef, hashLen)

SpecEdit == EdInit /\ [][EdNext]_vars

----------------------------------------------------------------------------
(* LRU cache: the Map of HashlineCache as the sequence of its entries in   *)
(* insertion order, oldest first                                           *)

HashlineCache(maxSize) == [maxSize |-> maxSize, entries |-> <<>>]

\* the position of key in the Map, 0 when absent
cacheIndex(c, key) ==
    IF \E i \in 1..Len(c.entries) : c.entries[i].key = key
    THEN CHOOSE i \in 1..Len(c.entries) : c.entries[i].key = key
    ELSE 0

\* Map.delete
mapDelete(entries, i) ==
    IF i = 0 THEN entries
    ELSE SubSeq(entries, 1, i - 1) \o SubSeq(entries, i + 1, Len(entries))

\* a variant of cacheGet that keeps the entry whose contentHash differs
cacheGetKeepStale(c, filePath, content) ==
    LET i == cacheIndex(c, filePath)
    IN  IF i = 0 THEN [hit |-> FALSE, cache |-> c]
        ELSE IF c.entries[i].contentHash # fnv1aHash(content)
             THEN [hit |-> FALSE, cache |-> c]
        ELSE [hit |-> TRUE, value |-> c.entries[i].annotated,
              cache |-> [c EXCEPT !.entries = Append(mapDelete(c.entries, i), c.entries[i])]]

\* a variant of cacheGet that leaves a hit entry where it is in the Map
cacheGetInPlace(c, filePath, content) ==
    LET i == cacheIndex(c, filePath)
    IN  IF i = 0 THEN [hit |-> FALSE, cache |-> c]
        ELSE IF c.entries[i].contentHash # fnv1aHash(content)
             THEN [hit |-> FALSE, cache |-> [c EXCEPT !.entries = mapDelete(c.entries, i)]]
        ELSE [hit |-> TRUE, value |-> c.entries[i].annotated, cache |-> c]

\* get: [hit, value, cache]; a miss returns null
cacheGet(c, filePath, content) ==
    LET i == cacheIndex(c, filePath)
    IN  IF i = 0 THEN [hit |-> FALSE, cache |-> c]
        ELSE IF c.entries[i].contentHash # fnv1aHash(content)
             THEN [hit |-> FALSE, cache |-> [c EXCEPT !.entries = mapDelete(c.entries, i)]]
        ELSE [hit |-> TRUE, value |-> c.entries[i].annotated,
              cache |-> [c EXCEPT !.entries = Append(mapDelete(c.entries, i), c.entries[i])]]

cacheSet(c, filePath, content, annotated) ==
    LET removed == mapDelete(c.entries, cacheIndex(c, filePath))
        evicted == IF Len(removed) >= c.maxSize /\ Len(removed) > 0
                   THEN Tail(removed) ELSE removed
    IN  [c EXCEPT !.entries = Append(evicted, [key |-> filePath,
                                               contentHash |-> fnv1aHash(content),
                                               annotated |-> annotated])]

cacheInvalidate(c, filePath) ==
    [c EXCEPT !.entries = mapDelete(c.entries, cacheIndex(c, filePath))]

\* clear
cacheClear(c) == [c EXCEPT !.entries = <<>>]

\* size
cacheSize(c) == Len(c.entries)

\* createHashline(config).formatFileWithHashes(content, filePath) with a
\* file path given: [result, cache]
instanceFormat(config, c, content, filePath) ==
    LET got == cacheGet(c, filePath, content)
        result == formatFileWithHashes(content, config.hashLength, config.prefix)
    IN  IF got.hit /\ got.value # <<>> THEN [result |-> got.value, cache |-> got.cache]
        ELSE [result |-> result, cache |-> cacheSet(got.cache, filePath, content, result)]

----------------------------------------------------------------------------
(* The hashline_edit tool, a concurrent writer of the same file, and the   *)
(* cached formatter                                                        *)

MaxCalls == 1
CacheSize == 2

\* DEFAULT_CONFIG: adaptive hash length, prefix "#HL "
ToolConfig == [hashLength |-> 0, prefix |-> PrefixUndefined, cacheSize |-> CacheSize]

\* context.worktree = context.directory = "/w". The file system: "/w/f" is a
\* file, "/w/l" a symbolic link to the file "/o/g" outside the worktree, and
\* "/w/n" does not exist; "/w/s" is a symbolic link to "/w/f", "/w/./f" is
\* an absolute path of "/w/f" that is not in normal form, and "/w/d" is a
\* symbolic link to "/o/new", which does not exist.
PathArgs == {"f", "/w/f", "/w/l", "n"}

\* isAbsolute(path) ? path : resolve(context.directory, path)
absPathOf(path) ==
    CASE path = "f" -> "/w/f"
      [] path = "n" -> "/w/n"
      [] path = "s" -> "/w/s"
      [] OTHER -> path

\* resolve(absPath)
resolveOf(absPath) == IF absPath = "/w/./f" THEN "/w/f" ELSE absPath

\* resolve(absPath) where realpathSync(absPath) resolves links
realAbsOfNoLinks(absPath) == resolveOf(absPath)

\* realpathSync(absPath), falling back to resolve(absPath) when it throws
realAbsOf(absPath) ==
    CASE absPath = "/w/l" -> "/o/g"
      [] absPath = "/w/s" -> "/w/f"
      [] OTHER -> resolveOf(absPath)

\* realAbs === realWorktree || realAbs.startsWith(realWorktree + sep)
insideWorktree(realAbs) == realAbs \in {"/w", "/w/f", "/w/l", "/w/n", "/w/s", "/w/d"}

\* relative(context.worktree, absPath) || path
displayPathOf(path, absPath) ==
    CASE absPath \in {"/w/f", "/w/./f"} -> "f"
      [] absPath = "/w/l" -> "l"
      [] absPath = "/w/n" -> "n"
      [] absPath = "/w/s" -> "s"
      [] absPath = "/w/d" -> "d"
      [] absPath = "/o/g" -> "../o/g"
      [] OTHER -> path

\* "c\ne", "c\ncc"
ToolDocs == { <<99, LF, 101>>, <<99, LF, 99, 99>> }

\* the bare references of the lines of "c\ne" (the second one is stale
\* against "c\ncc") and a malformed one "x"
ToolRefs ==
    {bareRef(n, computeLineHash(n - 1, split(<<99, LF, 101>>)[n], 3)) : n \in 1..2}
        \cup {<<120>>}

ToolArgs ==
    [path : PathArgs, operation : Operations, startRef : ToolRefs,
     endRef : {Undefined} \cup {Some(bareRef(n, computeLineHash(n - 1, split(<<99, LF, 101>>)[n], 3))) :
                                  n \in 1..2},
     replacement : {Undefined, Some(<<101>>)}]

Idle(n, last) == [pc |-> "idle", n |-> n, last |-> last]

ToolInit ==
    /\ disk \in {[p \in {"/w/f", "/o/g"} |-> IF p = "/w/f" THEN d ELSE <<99, LF, 101>>] :
                    d \in ToolDocs}
    /\ cache = HashlineCache(ToolConfig.cacheSize)
    /\ meta = <<>>
    /\ call = Idle(0, "none")
    /\ ann = AnnOff
    /\ ver = VerOff
    /\ ed = EdOff

\* execute, up to the access check
ToolStart(args) ==
    /\ call.pc = "idle"
    /\ call.n < MaxCalls
    /\ LET absPath == absPathOf(args.path)
           realAbs == realAbsOf(absPath)
       IN  call' = IF ~insideWorktree(realAbs)
                   THEN Idle(call.n + 1, "access denied")
                          @@ [error |-> [kind |-> "AccessDenied", path |-> args.path]]
                   ELSE [pc |-> "resolved", n |-> call.n + 1, args |-> args,
                         absPath |-> absPath, realAbs |-> realAbs,
                         normalizedAbs |-> resolveOf(absPath),
                         displayPath |-> displayPathOf(args.path, absPath)]
    /\ UNCHANGED <<disk, cache, meta, ann, ver, ed>>

\* current = readFileSync(realAbs)
ToolRead ==
    /\ call.pc = "resolved"
    /\ call' = IF call.realAbs \in DOMAIN disk
               THEN [call EXCEPT !.pc = "read"] @@ [current |-> disk[call.realAbs]]
               ELSE Idle(call.n, "read failed")
    /\ UNCHANGED <<disk, cache, meta, ann, ver, ed>>

\* the call after applyHashEdit returned result or threw
afterApply(c, result) ==
    IF result.ok
    THEN [c EXCEPT !.pc = "applied"]
           @@ [nextContent |-> result.content,
               startLine |-> result.startLine, endLine |-> result.endLine]
    ELSE Idle(c.n, "edit failed") @@ [error |-> result.error]

\* applyHashEdit(args, current, config.hashLength || undefined)
ToolApply ==
    /\ call.pc = "read"
    /\ call' = afterApply(call, applyHashEdit([operation |-> call.args.operation,
                                               startRef |-> call.args.startRef,
                                               endRef |-> call.args.endRef,
                                               replacement |-> call.args.replacement],
                                              call.current, ToolConfig.hashLength))
    /\ UNCHANGED <<disk, cache, meta, ann, ver, ed>>

\* writeFileSync(realAbs, nextContent)
ToolWrite ==
    /\ call.pc = "applied"
    /\ disk' = [disk EXCEPT ![call.realAbs] = call.nextContent]
    /\ call' = [call EXCEPT !.pc = "written"]
    /\ UNCHANGED <<cache, meta, ann, ver, ed>>

\* writeFileSync throws
ToolWriteFails ==
    /\ call.pc = "applied"
    /\ call' = Idle(call.n, "write failed")
    /\ UNCHANGED <<disk, cache, meta, ann, ver, ed>>

\* a finish that invalidates the entry of the real path only
ToolFinishRealOnly ==
    /\ call.pc = "written"
    /\ cache' = cacheInvalidate(cache, call.realAbs)
    /\ meta' = Append(meta, [path |-> call.displayPath, operation |-> call.args.operation,
                             startLine |-> call.startLine, endLine |-> call.endLine])
    /\ call' = Idle(call.n, "ok")
    /\ UNCHANGED <<disk, ann, ver, ed>>

\* the cache invalidations, context.metadata and the return
ToolFinish ==
    /\ call.pc = "written"
    /\ LET c1 == cacheInvalidate(cache, call.realAbs)
           c2 == cacheInvalidate(c1, call.normalizedAbs)
           c3 == cacheInvalidate(c2, call.absPath)
           c4 == IF call.args.path # call.absPath THEN cacheInvalidate(c3, call.args.path)
                 ELSE c3
           c5 == IF call.displayPath # call.absPath THEN cacheInvalidate(c4, call.displayPath)
                 ELSE c4
       IN  cache' = c5
    /\ meta' = Append(meta, [path |-> call.displayPath, operation |-> call.args.operation,
                             startLine |-> call.startLine, endLine |-> call.endLine])
    /\ call' = Idle(call.n, "ok")
    /\ UNCHANGED <<disk, ann, ver, ed>>

\* another process writes the file
ExternalWrite(content) ==
    /\ content # disk["/w/f"]
    /\ disk' = [disk EXCEPT !["/w/f"] = content]
    /\ UNCHANGED <<cache, meta, call, ann, ver, ed>>

\* the file is read and annotated through the cache under filePath
CachedFormat(filePath) ==
    /\ call.pc = "idle"
    /\ cache' = instanceFormat(ToolConfig, cache, disk["/w/f"], filePath).cache
    /\ UNCHANGED <<disk, meta, call, ann, ver, ed>>

Next ==
    \/ \E args \in ToolArgs : ToolStart(args)
    \/ ToolRead
    \/ ToolApply
    \/ ToolWrite
    \/ ToolWriteFails
    \/ ToolFinish
    \/ \E content \in ToolDocs : ExternalWrite(content)
    \/ \E filePath \in {"f", "/w/f"} : CachedFormat(filePath)

Init == ToolInit

Spec == Init /\ [][Next]_vars

----------------------------------------------------------------------------
(* Properties of the tool                                                  *)

\* the lines applyHashEdit works on
workLines(content) ==
    split(IF detectLineEnding(content) = <<CR, LF>> THEN replaceCRLF(content) ELSE content)

\* the line a reference names exists in lines and hashes, at the length the
\* check uses, to the reference's hash
LineMatches(r, lines, hashLen) ==
    /\ r.line \in 1..Len(lines)
    /\ computeLineHash(r.line - 1, lines[r.line],
                       IF hashLen # 0 /\ hashLen >= 2 THEN hashLen ELSE Len(r.hash)) = r.hash

\* ref is malformed, names a line out of range, or is stale against content
RefCheckFails(ref, content, hashLen) ==
    LET n == normalizeHashRef(ref)
    IN  \/ ~n.ok
        \/ ~parseHashRef(n.ref).ok
        \/ ~LineMatches(parseHashRef(n.ref), workLines(content), hashLen)

\* one of the checks the operation requires fails against content
RequiredCheckFails(args, content, hashLen) ==
    LET endRef == IF args.endRef.def THEN args.endRef.str ELSE args.startRef
    IN  \/ RefCheckFails(args.startRef, content, hashLen)
        \/ /\ args.operation \in {"replace", "delete"}
           /\ \/ RefCheckFails(endRef, content, hashLen)
              \/ parseHashRef(normalizeHashRef(args.startRef).ref).line
                    > parseHashRef(normalizeHashRef(endRef).ref).line
        \/ args.operation # "delete" /\ ~args.replacement.def

\* C2: when a required check fails (malformed reference, line out of range,
\* stale hash on the start or the end reference, start line after end line,
\* missing replacement) on the content the tool read, applyHashEdit throws and
\* the call ends "edit failed"; and a step of a call changes the file, the
\* cache or the metadata only after every check passed on the content read.
C2_FailedCheckNoMutation ==
    [][call' # call =>
        /\ (call.pc = "read" /\ RequiredCheckFails(call.args, call.current, ToolConfig.hashLength))
              => (call'.pc = "idle" /\ call'.last = "edit failed"
                    /\ "nextContent" \notin DOMAIN call')
        /\ (disk' # disk \/ cache' # cache \/ meta' # meta)
              => /\ call.pc \in {"applied", "written"}
                 /\ ~RequiredCheckFails(call.args, call.current, ToolConfig.hashLength)]_vars

\* a call failed on a stale reference with an entry in the cache and nothing
\* emitted
C2_Witness ==
    /\ call.pc = "idle" /\ call.last = "edit failed"
    /\ call.error.kind = "StartInvalid"
    /\ call.error.verify.message.kind = "Hash mismatch"
    /\ cache.entries # <<>>
    /\ meta = <<>>

----------------------------------------------------------------------------
(* Properties of verifyHash                                                *)

\* the lines verifyHash read: those of the current document, followed by
\* the filler lines when it is grown
VerLineCount == Len(split(ver.current)) + IF ver.grown THEN Len(Filler) ELSE 0

VerLineAt(n) ==
    IF n <= Len(split(ver.current)) THEN split(ver.current)[n]
    ELSE Filler[n - Len(split(ver.current))]

VerInRange == ver.line >= 1 /\ ver.line <= VerLineCount

\* the hash of the referenced line of the current document, at the length
\* the check uses
VerRecomputed ==
    computeLineHash(ver.line - 1, VerLineAt(ver.line),
                    IF ver.hashLen # 0 /\ ver.hashLen >= 2 THEN ver.hashLen
                    ELSE Len(ver.hash))

\* documents a and b have the same lines but for line n
DiffersOnlyAt(a, b, n) ==
    LET la == split(a)
        lb == split(b)
    IN  /\ Len(la) = Len(lb)
        /\ n \in 1..Len(la)
        /\ la[n] # lb[n]
        /\ \A i \in 1..Len(la) : i # n => la[i] = lb[i]

\* a reference (n, h) computed from the document, verified without override
\* against a document that differs from it at line n only
ChangedAtRef ==
    /\ ver.phase = "verified" /\ ver.taken /\ ver.hashLen = 0 /\ ~ver.grown
    /\ DiffersOnlyAt(ver.content, ver.current, ver.line)

\* the result is the mismatch: invalid, with h as expected and the recomputed
\* hash as actual
Stale ==
    /\ ~ver.result.valid
    /\ DOMAIN ver.result = {"valid", "expected", "actual", "message"}
    /\ ver.result.expected = ver.hash
    /\ ver.result.actual = VerRecomputed

\* C3 as stated: every change of line n makes the reference stale.
C3_ChangedLineIsStale == ChangedAtRef => Stale

\* C3, amended: a change of line n makes the reference stale whenever the
\* new line's hash, at the length of h, differs from h; the result then
\* carries expected = h and actual = the recomputed hash.
C3_ChangedHashIsStale == (ChangedAtRef /\ VerRecomputed # ver.hash) => Stale

C3_Witness == ChangedAtRef /\ VerRecomputed # ver.hash /\ Stale /\ Len(ver.hash) = 3

\* C7: without override the result depends only on h and on the trimmed
\* content of line n: it is the result on the original document whenever the
\* current document has the same line n up to trailing whitespace, whatever
\* the other lines and the line count are.
C7_VerifyDependsOnLineOnly ==
    (/\ ver.phase = "verified" /\ ver.hashLen = 0
     /\ ver.line \in 1..Len(split(ver.content))
     /\ VerInRange
     /\ trimEnd(split(ver.content)[ver.line]) = trimEnd(VerLineAt(ver.line)))
        => ver.result = ver.base

\* a 3-character reference stays valid on a changed document of more than
\* 4096 lines
C7_Witness ==
    /\ ver.phase = "verified" /\ ver.hashLen = 0 /\ ver.taken /\ ver.grown
    /\ Len(ver.hash) = 3
    /\ VerLineCount > AdaptiveThreshold
    /\ ver.current # ver.content
    /\ ver.result = [valid |-> TRUE]

\* C8: verifyHash has three outcomes: line out of range (invalid, neither
\* expected nor actual), hash mismatch (invalid, expected = h, actual = the
\* recomputed hash), and valid; each happens exactly in its case.
C8_ThreeOutcomes ==
    ver.phase = "verified" =>
        /\ ~VerInRange <=>
              /\ DOMAIN ver.result = {"valid", "message"}
              /\ ~ver.result.valid
              /\ ver.result.message.kind = "out of range"
        /\ (VerInRange /\ VerRecomputed # ver.hash) <=> Stale
        /\ (VerInRange /\ VerRecomputed = ver.hash) <=> ver.result = [valid |-> TRUE]

\* the out-of-range outcome at line 0
C8_Witness ==
    /\ ver.phase = "verified"
    /\ ver.line = 0
    /\ DOMAIN ver.result = {"valid", "message"}
    /\ ~ver.result.valid

----------------------------------------------------------------------------
(* Properties of applyHashEdit                                             *)

\* the lines of a document whose line ending is lineEnding
linesUnder(content, lineEnding) ==
    split(IF lineEnding = <<CR, LF>> THEN replaceCRLF(content) ELSE content)

\* the lines of the document given, and of the document returned read under
\* the line ending of the document given
EdIn == linesUnder(ed.content, detectLineEnding(ed.content))
EdOut == linesUnder(ed.result.content, detectLineEnding(ed.content))

\* the references of the call
EdStart == parseHashRef(normalizeHashRef(ed.input.startRef).ref)
EdEnd ==
    parseHashRef(normalizeHashRef(IF ed.input.endRef.def THEN ed.input.endRef.str
                                  ELSE ed.input.startRef).ref)

\* the call returned, and its operation is one of ops
EdOk(ops) == ed.phase = "applied" /\ ed.result.ok /\ ed.input.operation \in ops

\* C4 as stated: every line a replace or delete removes was checked against
\* a reference the caller supplied for that line.
C4_RemovedLinesChecked ==
    EdOk({"replace", "delete"}) =>
        \A i \in ed.result.startLine..ed.result.endLine :
            \E r \in {EdStart, EdEnd} : r.line = i /\ LineMatches(r, EdIn, ed.hashLen)

\* C4, amended: a replace or delete removes only the lines of the range
\* s..e its references name; line s and line e were checked against the
\* references (the lines between them against none), and every line outside
\* the range is kept.
C4_RemovedRangeEndsChecked ==
    EdOk({"replace", "delete"}) =>
        /\ ed.result.startLine = EdStart.line
        /\ ed.result.endLine = EdEnd.line
        /\ EdStart.line <= EdEnd.line
        /\ LineMatches(EdStart, EdIn, ed.hashLen)
        /\ LineMatches(EdEnd, EdIn, ed.hashLen)
        /\ Len(EdOut) >= Len(EdIn) - (EdEnd.line - EdStart.line + 1)
        /\ \A i \in 1..(EdStart.line - 1) : EdOut[i] = EdIn[i]
        /\ \A j \in (EdEnd.line + 1)..Len(EdIn) :
              EdOut[Len(EdOut) - (Len(EdIn) - j)] = EdIn[j]

\* a delete of three lines: the middle one has no reference
C4_Witness ==
    /\ EdOk({"delete"})
    /\ EdEnd.line = EdStart.line + 2
    /\ EdIn[EdStart.line + 1] # EdIn[EdStart.line]
    /\ EdIn[EdStart.line + 1] # EdIn[EdEnd.line]

\* C9: replace of the range s..e of a document of n lines by k lines returns
\* lines 1..s-1, the k lines, lines e+1..n: n - (e - s + 1) + k lines; the
\* result's startLine and endLine are s and e.
C9_ReplaceFrame ==
    EdOk({"replace"}) =>
        LET s == EdStart.line
            e == EdEnd.line
            replacementLines == split(ed.input.replacement.str)
        IN  /\ EdOut = SubSeq(EdIn, 1, s - 1) \o replacementLines
                          \o SubSeq(EdIn, e + 1, Len(EdIn))
            /\ Len(EdOut) = Len(EdIn) - (e - s + 1) + Len(replacementLines)
            /\ ed.result.startLine = s
            /\ ed.result.endLine = e

\* one inner line replaced by two
C9_Witness ==
    /\ EdOk({"replace"})
    /\ EdStart.line > 1
    /\ EdEnd.line < Len(EdIn)
    /\ Len(split(ed.input.replacement.str)) = 2
    /\ Len(EdOut) = Len(EdIn) + 1

\* C10: delete of the range s..e returns lines 1..s-1 followed by lines
\* e+1..n, with or without a replacement in the input (a missing one is no
\* error); deleting every line returns the empty document.
C10_DeleteFrame ==
    (ed.phase = "applied" /\ ed.input.operation = "delete") =>
        IF ed.result.ok
        THEN LET s == EdStart.line
                 e == EdEnd.line
                 kept == SubSeq(EdIn, 1, s - 1) \o SubSeq(EdIn, e + 1, Len(EdIn))
             IN  /\ IF kept = <<>> THEN ed.result.content = <<>> ELSE EdOut = kept
                 /\ (s = 1 /\ e = Len(EdIn)) => ed.result.content = <<>>
        ELSE ed.result.error.kind # "MissingReplacement"

\* every line of a document of several lines deleted, a replacement supplied
C10_Witness ==
    /\ EdOk({"delete"})
    /\ EdStart.line = 1
    /\ EdEnd.line = Len(EdIn)
    /\ Len(EdIn) >= 2
    /\ ed.input.replacement.def
    /\ ed.input.replacement.str # <<>>
    /\ ed.result.content = <<>>

\* the call returned from an insertion at line n: the number of input lines
\* that precede the inserted ones
EdInsertIndex ==
    IF ed.input.operation = "insert_before" THEN EdStart.line - 1 ELSE EdStart.line

\* C11: insert_before / insert_after succeeds exactly when the start
\* reference verifies and a replacement is given, whatever endRef is
\* (missing, malformed or stale); it returns input lines 1..n-1
\* (insert_before) or 1..n (insert_after), the replacement lines, then the
\* remaining input lines in order, and reports startLine = endLine = n.
C11_InsertFrame ==
    (ed.phase = "applied" /\ ed.input.operation \in {"insert_before", "insert_after"}) =>
        /\ ed.result.ok <=>
              /\ ~RefCheckFails(ed.input.startRef, ed.content, ed.hashLen)
              /\ ed.input.replacement.def
        /\ ed.result.ok =>
              /\ EdOut = SubSeq(EdIn, 1, EdInsertIndex)
                            \o split(ed.input.replacement.str)
                            \o SubSeq(EdIn, EdInsertIndex + 1, Len(EdIn))
              /\ ed.result.startLine = EdStart.line
              /\ ed.result.endLine = EdStart.line

\* an insertion inside a document that succeeded with a malformed endRef
C11_Witness ==
    /\ EdOk({"insert_before"})
    /\ ed.input.endRef.def
    /\ ~normalizeHashRef(ed.input.endRef.str).ok
    /\ EdStart.line = 2
    /\ Len(EdIn) >= 3
    /\ Len(split(ed.input.replacement.str)) = 2
    /\ Len(EdOut) = Len(EdIn) + 2

\* the 3-digit reference hash of line m of the document given
EdRef(m) == computeLineHash(m - 1, EdIn[m], 3)

\* the reference of line m of the document given verifies against content
EdRefVerifies(m, content) == verifyHash(m, EdRef(m), content, ed.hashLen, NoLines).valid

----------------------------------------------------------------------------
(* Properties of annotated lines used as references                        *)

\* C13: for every prefix and every document, normalizeHashRef accepts a whole
\* line emitted by formatFileWithHashes and extracts its "<line>:<hash>"
\* reference in lower case, and applyHashEdit given the line as startRef or
\* endRef returns what it returns given the bare reference.
C13_AnnotatedLineAsRef ==
    ann.phase = "line used" =>
        /\ ann.normalized.ok
        /\ ann.normalized.ref = toLowerCase(ann.ref)
        /\ ann.edit = lineEdit(ann.text, ann.hashLen, ann.ref, ann.ref, ann.asEnd)

----------------------------------------------------------------------------
(* Properties of the replacement argument                                  *)

\* one of the reference checks the operation makes fails: a reference is
\* malformed, out of range or stale, or the start line is after the end line
ReferenceChecksFail(input, content, hashLen) ==
    LET endRef == IF input.endRef.def THEN input.endRef.str ELSE input.startRef
    IN  \/ RefCheckFails(input.startRef, content, hashLen)
        \/ /\ input.operation \in {"replace", "delete"}
           /\ \/ RefCheckFails(endRef, content, hashLen)
              \/ parseHashRef(normalizeHashRef(input.startRef).ref).line
                    > parseHashRef(normalizeHashRef(endRef).ref).line

\* the lines before and after the place where the replacement lines go
EdBefore ==
    IF ed.input.operation \in {"insert_before", "insert_after"}
    THEN SubSeq(EdIn, 1, EdInsertIndex)
    ELSE SubSeq(EdIn, 1, EdStart.line - 1)

EdAfter ==
    IF ed.input.operation \in {"insert_before", "insert_after"}
    THEN SubSeq(EdIn, EdInsertIndex + 1, Len(EdIn))
    ELSE SubSeq(EdIn, EdEnd.line + 1, Len(EdIn))

\* C14: replace, insert_before and insert_after without a replacement never
\* succeed, and fail with the missing-replacement error exactly when no
\* reference check fails; with the empty string as replacement they succeed
\* exactly when no reference check fails and put one empty line in the
\* place of the replacement; delete never fails with the missing-replacement
\* error.
C14_ReplacementRequired ==
    ed.phase = "applied" =>
        /\ (ed.input.operation # "delete" /\ ~ed.input.replacement.def) =>
              /\ ~ed.result.ok
              /\ ed.result.error.kind = "MissingReplacement"
                    <=> ~ReferenceChecksFail(ed.input, ed.content, ed.hashLen)
        /\ (ed.input.operation # "delete" /\ ed.input.replacement = Some(<<>>)) =>
              /\ ed.result.ok <=> ~ReferenceChecksFail(ed.input, ed.content, ed.hashLen)
              /\ ed.result.ok => EdOut = EdBefore \o << <<>> >> \o EdAfter
        /\ (ed.input.operation = "delete" /\ ~ed.result.ok) =>
              ed.result.error.kind # "MissingReplacement"

\* one line of several replaced by the empty string: the line count is kept
C14_Witness ==
    /\ EdOk({"replace"})
    /\ ed.input.replacement = Some(<<>>)
    /\ EdStart.line = EdEnd.line
    /\ EdIn[EdStart.line] # <<>>
    /\ Len(EdIn) >= 2
    /\ Len(EdOut) = Len(EdIn)
    /\ EdOut[EdStart.line] = <<>>

----------------------------------------------------------------------------
(* Properties of resolveRange                                              *)

\* the references of a resolveRange call, as parsed
RrStart == parseHashRef(ed.startRef)
RrEnd == parseHashRef(ed.endRef)

\* C15: resolveRange given two well-formed references with the start line
\* after the end line fails with the invalid-range error, whether the
\* references verify or not; with the lines in order it fails naming the
\* start reference when that one does not verify, naming the end reference
\* when only that one does not verify, and returns the range s..e otherwise.
C15_RangeOrderBeforeVerification ==
    (ed.phase = "resolved" /\ RrStart.ok /\ RrEnd.ok) =>
        IF RrStart.line > RrEnd.line
        THEN ~ed.result.ok /\ ed.result.error.kind = "InvalidRange"
        ELSE IF ~LineMatches(RrStart, workLines(ed.content), ed.hashLen)
        THEN ~ed.result.ok /\ ed.result.error.kind = "StartInvalid"
        ELSE IF ~LineMatches(RrEnd, workLines(ed.content), ed.hashLen)
        THEN ~ed.result.ok /\ ed.result.error.kind = "EndInvalid"
        ELSE /\ ed.result.ok
             /\ ed.result.startLine = RrStart.line
             /\ ed.result.endLine = RrEnd.line
             /\ ed.result.lines = SubSeq(workLines(ed.content), RrStart.line, RrEnd.line)

\* the invalid-range error for a start reference that does not verify
C15_Witness ==
    /\ ed.phase = "resolved" /\ RrStart.ok /\ RrEnd.ok
    /\ RrStart.line > RrEnd.line
    /\ ~LineMatches(RrStart, workLines(ed.content), ed.hashLen)
    /\ ed.result.error.kind = "InvalidRange"

----------------------------------------------------------------------------
(* Properties of the line endings applyHashEdit returns                    *)

\* no carriage return occurs in s: every line break of s is a bare "\n"
NoCR(s) == \A i \in 1..Len(s) : s[i] # CR

\* every "\n" of s follows a "\r" and every "\r" of s precedes a "\n":
\* every line break of s is "\r\n"
BreaksAreCRLF(s) ==
    /\ \A i \in 1..Len(s) : s[i] = LF => (i > 1 /\ s[i - 1] = CR)
    /\ \A i \in 1..Len(s) : s[i] = CR => (i < Len(s) /\ s[i + 1] = LF)

\* a document with at least one line break, all of them "\r\n"
CRLFDocument(s) == BreaksAreCRLF(s) /\ \E i \in 1..Len(s) : s[i] = LF

\* the call was given a replacement that separates its lines by "\n" only,
\* or none
EdReplacementLF == ed.input.replacement.def => NoCR(ed.input.replacement.str)

\* the same call on the LF-normalized document
EdOnNormalized == applyHashEdit(ed.input, replaceCRLF(ed.content), ed.hashLen)

\* C16: for each of the four operations and a replacement whose lines are
\* separated by "\n", a document whose line breaks are all "\r\n" gets back
\* content whose line breaks are all "\r\n", a document without any "\r"
\* gets back content without any "\r", and the call succeeds or fails exactly
\* as it does on the LF-normalized document, returning the same lines.
C16_LineEndingPreserved ==
    (ed.phase = "applied" /\ EdReplacementLF) =>
        /\ (CRLFDocument(ed.content) /\ ed.result.ok) => BreaksAreCRLF(ed.result.content)
        /\ (NoCR(ed.content) /\ ed.result.ok) => NoCR(ed.result.content)
        /\ (CRLFDocument(ed.content) \/ NoCR(ed.content)) =>
              /\ ed.result.ok = EdOnNormalized.ok
              /\ ~ed.result.ok => ed.result = EdOnNormalized
              /\ ed.result.ok =>
                    /\ replaceCRLF(ed.result.content) = EdOnNormalized.content
                    /\ ed.result.startLine = EdOnNormalized.startLine
                    /\ ed.result.endLine = EdOnNormalized.endLine

\* two lines inserted into a three-line "\r\n" document
C16_Witness ==
    /\ EdOk({"insert_after"})
    /\ ed.content = <<99, CR, LF, 101, CR, LF, 99, 99>>
    /\ ed.input.replacement = Some(<<101, LF, 99>>)
    /\ ed.result.content = <<99, CR, LF, 101, CR, LF, 99, CR, LF, 101, CR, LF, 99, 99>>

----------------------------------------------------------------------------
(* Properties of the lines formatFileWithHashes emits                      *)

\* the lines of the document given to the annotator
AnnLines == split(IF includesCRLF(ann.text) THEN replaceCRLF(ann.text) ELSE ann.text)

\* the lines emitted
AnnOut == split(ann.formatted)

\* the length the hash is to have: the override when >= 3, otherwise 3 for
\* documents of at most 4096 lines and 4 above
AnnHashLength ==
    IF ann.hashLen >= 3 THEN ann.hashLen
    ELSE IF Len(AnnLines) <= 4096 THEN 3 ELSE 4

\* line is <prefix><n>:<hash>|<text> for a lowercase hex hash of a length in
\* lengths
AnnotatedShape(line, pfx, n, text, lengths) ==
    LET head == pfx \o toDecimal(n) \o <<58>>
    IN  \E len \in lengths :
            /\ Len(line) = Len(head) + len + 1 + Len(text)
            /\ SubSeq(line, 1, Len(head)) = head
            /\ \A i \in 1..len : line[Len(head) + i] \in LowerHex
            /\ line[Len(head) + len + 1] = 124
            /\ SubSeq(line, Len(head) + len + 2, Len(line)) = text

\* C17: formatFileWithHashes emits one line per line of the document, and
\* emitted line n is <prefix><n>:<hash>|<line n> with a lowercase hex hash
\* of at least 3 and at most 8 characters: as many as the override when it
\* is >= 3, otherwise as many as the adaptive length.
C17_FormatShape ==
    ann.phase = "formatted" =>
        /\ Len(AnnOut) = Len(AnnLines)
        /\ \A n \in 1..Len(AnnLines) :
              AnnotatedShape(AnnOut[n], effectivePrefix(ann.prefix), n, AnnLines[n],
                             {AnnHashLength} \cap (3..8))

----------------------------------------------------------------------------
(* Properties of stripHashes on arbitrary content                          *)

\* the lines of s, separated by "\n" or "\r\n"
linesOf(s) == split(replaceCRLF(s))

\* the positions k of line at which a tag  <prefix><digits>:<2-8 hex>|  that
\* starts after the first m characters ends
TagEnds(line, pfx, m) ==
    LET d == m + Len(pfx)
    IN  {k \in (d + 1)..Len(line) :
            /\ SubSeq(line, m + 1, d) = pfx
            /\ \E c \in (d + 2)..(k - 3) :
                  /\ \A i \in (d + 1)..(c - 1) : line[i] \in Digit
                  /\ line[c] = 58
                  /\ k - 1 - c <= 8
                  /\ \A i \in (c + 1)..(k - 1) : line[i] \in LowerHex
            /\ line[k] = 124}

\* line starts with one patch marker followed by a tag
MarkedTagged(line, pfx) ==
    Len(line) >= 1 /\ line[1] \in {43, 45, 32} /\ TagEnds(line, pfx, 1) # {}

\* line starts with a tag
Tagged(line, pfx) == TagEnds(line, pfx, 0) # {}

\* line without its tag
Untagged(line, pfx) ==
    IF MarkedTagged(line, pfx)
    THEN <<line[1]>> \o SubSeq(line, (CHOOSE k \in TagEnds(line, pfx, 1) : TRUE) + 1, Len(line))
    ELSE SubSeq(line, (CHOOSE k \in TagEnds(line, pfx, 0) : TRUE) + 1, Len(line))

\* C18: stripHashes returns as many lines as it is given; a line that does
\* not start with an optional patch marker, the prefix and a tag comes back
\* unchanged, a line that does comes back without prefix and tag and with
\* its patch marker; content without any tagged line comes back identical,
\* code unit for code unit.
C18_StripFrame ==
    ann.phase = "raw stripped" =>
        LET pfx == effectivePrefix(ann.prefix)
            given == linesOf(ann.text)
            back == linesOf(ann.stripped)
            tagged == {n \in 1..Len(given) :
                          MarkedTagged(given[n], pfx) \/ Tagged(given[n], pfx)}
        IN  /\ Len(back) = Len(given)
            /\ \A n \in 1..Len(given) :
                  back[n] = IF n \in tagged THEN Untagged(given[n], pfx) ELSE given[n]
            /\ tagged = {} => ann.stripped = ann.text

----------------------------------------------------------------------------
(* One HashlineCache under get, set, invalidate and clear, and the cached  *)
(* formatter of the instance that owns it                                  *)

\* the largest capacity given to the constructor
MaxCapacity == 2

CacheKeys == {"f", "g", "h"}

\* file contents: "c", and "d\nxk" and "xila", which fnv1aHash maps to the
\* same value 0xcfbca618
CacheDocs == { <<99>>, <<100, LF, 120, 107>>, <<120, 105, 108, 97>> }

\* the contents stored by set: "c" and "d\nxk"
StoredDocs == { <<99>>, <<100, LF, 120, 107>> }

\* the configuration of the instance: adaptive hash length, default prefix
CacheConfig == [hashLength |-> 0, prefix |-> PrefixUndefined]

\* what formatFileWithHashes returns for each content under CacheConfig
CacheAnnotations ==
    [content \in CacheDocs |->
        formatFileWithHashes(content, CacheConfig.hashLength, CacheConfig.prefix)]

\* what the owner of the cache stores for content
annotationOf(content) == CacheAnnotations[content]

\* no set(k, .) since the last removal of k
NeverSet == [def |-> FALSE, str |-> <<>>, annotated |-> <<>>]

\* the keys the cache holds
cachedKeys(c) == {c.entries[i].key : i \in 1..Len(c.entries)}

\* uses without key
forget(uses, key) ==
    LET Other(k) == k # key
    IN  SelectSeq(uses, Other)

\* key becomes the most recently used one
touch(uses, key) == Append(forget(uses, key), key)

\* cache: the HashlineCache; meta[k]: the arguments of the most recent
\* set(k, ., .) not followed by invalidate(k) or clear(); call: the last
\* call, with the keys cached when a get or set was made (had) and the keys
\* set or hit since their last invalidate or clear, least recently used
\* first (uses)
CacheInit ==
    /\ cache \in {HashlineCache(N) : N \in 0..MaxCapacity}
    /\ meta = [k \in CacheKeys |-> NeverSet]
    /\ call = [op |-> "new", uses |-> <<>>]
    /\ disk = <<>>
    /\ ann = AnnOff
    /\ ver = VerOff
    /\ ed = EdOff

Get(filePath, content) ==
    LET got == cacheGet(cache, filePath, content)
    IN  /\ cache' = got.cache
        /\ call' = [op |-> "get", key |-> filePath, content |-> content, hit |-> got.hit,
                    value |-> IF got.hit THEN got.value ELSE <<>>,
                    had |-> cachedKeys(cache),
                    uses |-> IF got.hit THEN touch(call.uses, filePath) ELSE call.uses]
        /\ UNCHANGED <<meta, disk, ann, ver, ed>>

Set(filePath, content) ==
    /\ cache' = cacheSet(cache, filePath, content, annotationOf(content))
    /\ meta' = [meta EXCEPT ![filePath] = [def |-> TRUE, str |-> content,
                                           annotated |-> annotationOf(content)]]
    /\ call' = [op |-> "set", key |-> filePath, content |-> content,
                had |-> cachedKeys(cache), uses |-> touch(call.uses, filePath)]
    /\ UNCHANGED <<disk, ann, ver, ed>>

Invalidate(filePath) ==
    /\ cache' = cacheInvalidate(cache, filePath)
    /\ meta' = [meta EXCEPT ![filePath] = NeverSet]
    /\ call' = [op |-> "invalidate", key |-> filePath,
                uses |-> forget(call.uses, filePath)]
    /\ UNCHANGED <<disk, ann, ver, ed>>

Clear ==
    /\ cache' = cacheClear(cache)
    /\ meta' = [k \in CacheKeys |-> NeverSet]
    /\ call' = [op |-> "clear", uses |-> <<>>]
    /\ UNCHANGED <<disk, ann, ver, ed>>

\* createHashline(config).formatFileWithHashes(content, filePath); the read
\* hook does the same with the plugin's cache
FormatCached(filePath, content) ==
    LET got == cacheGet(cache, filePath, content)
        r == instanceFormat(CacheConfig, cache, content, filePath)
    IN  /\ cache' = r.cache
        /\ meta' = IF got.hit /\ got.value # <<>> THEN meta
                   ELSE [meta EXCEPT ![filePath] = [def |-> TRUE, str |-> content,
                                                    annotated |-> annotationOf(content)]]
        /\ call' = [op |-> "format", key |-> filePath, content |-> content,
                    result |-> r.result, uses |-> touch(call.uses, filePath)]
        /\ UNCHANGED <<disk, ann, ver, ed>>

CacheNext ==
    \/ \E k \in CacheKeys, c \in CacheDocs : Get(k, c)
    \/ \E k \in CacheKeys, c \in StoredDocs : Set(k, c)
    \/ \E k \in CacheKeys : Invalidate(k)
    \/ Clear
    \/ \E c \in CacheDocs : FormatCached("f", c)

SpecCache == CacheInit /\ [][CacheNext]_vars

\* C19: a get(k, c) that returns an annotation was given the content c of
\* the most recent set(k, .) not removed since, and returns the annotation
\* stored by that set; with any other content it misses. The cached
\* formatter returns what formatFileWithHashes returns for the content it
\* is given.
C19_CacheHitMeansSameContent ==
    /\ (call.op = "get" /\ call.hit) =>
          /\ meta[call.key].def
          /\ call.content = meta[call.key].str
          /\ call.value = meta[call.key].annotated
    /\ call.op = "format" => call.result = annotationOf(call.content)

\* C20: the cache never holds more entries than the capacity N >= 0 given to
\* its constructor.
C20_SizeWithinCapacity == cacheSize(cache) <= cache.maxSize

----------------------------------------------------------------------------
(* Properties of eviction and of misses                                    *)

\* the least recently used of the keys in had, by the uses before the call
\* (the key of the call is not in had, so its place in uses does not matter)
leastRecentlyUsed(had, uses) ==
    uses[CHOOSE i \in 1..Len(uses) :
            /\ uses[i] \in had
            /\ \A j \in 1..(i - 1) : uses[j] \notin had]

\* C21: with capacity N >= 1, a set(k, .) for a key that is not cached while
\* the cache holds N entries evicts exactly one entry, the least recently
\* used one (last set, or last get that hit); below capacity it evicts
\* nothing; a set for a cached key keeps the same keys cached.
C21_EvictsLeastRecentlyUsed ==
    (call.op = "set" /\ cache.maxSize >= 1) =>
        cachedKeys(cache) =
            IF call.key \in call.had THEN call.had
            ELSE IF Cardinality(call.had) < cache.maxSize THEN call.had \cup {call.key}
            ELSE (call.had \ {leastRecentlyUsed(call.had, call.uses)}) \cup {call.key}

\* at capacity 2 with "f" and "g" cached and "f" used after "g", the set of
\* "h" evicted "g"
C21_Witness ==
    /\ call.op = "set" /\ call.key = "h"
    /\ cache.maxSize = 2
    /\ call.had = {"f", "g"}
    /\ call.uses = <<"g", "f", "h">>
    /\ cache.entries[1].key = "f"
    /\ cachedKeys(cache) = {"f", "h"}

\* entries without the entry of key, the others in their order
withoutKey(entries, key) ==
    LET Other(e) == e.key # key
    IN  SelectSeq(entries, Other)

\* the content fingerprint stored for key differs from the one of content
StoredDiffers(c, key, content) ==
    \E i \in 1..Len(c.entries) :
        c.entries[i].key = key /\ c.entries[i].contentHash # fnv1aHash(content)

\* C22: a get(k, c) whose fingerprint differs from the one stored for k
\* misses and removes the entry of k, the size dropping by one; a get of an
\* absent key misses and changes nothing; any miss leaves the other entries
\* and their order as they were; and a key that is not cached stays so,
\* every get of it missing, until it is set again.
C22_MissRemovesOnlyItsEntry ==
    [][/\ call'.op = "get" =>
            /\ StoredDiffers(cache, call'.key, call'.content) =>
                  /\ ~call'.hit
                  /\ call'.key \notin cachedKeys(cache')
                  /\ cacheSize(cache') = cacheSize(cache) - 1
            /\ call'.key \notin cachedKeys(cache) => (~call'.hit /\ cache' = cache)
            /\ ~call'.hit => cache'.entries = withoutKey(cache.entries, call'.key)
       /\ \A k \in CacheKeys :
            (k \notin cachedKeys(cache) /\ ~(call'.op \in {"set", "format"} /\ call'.key = k))
                => k \notin cachedKeys(cache')]_vars

\* a get missed on a cached key, whose entry is gone while another remains
C22_Witness ==
    /\ call.op = "get" /\ ~call.hit
    /\ call.key \in call.had
    /\ call.key \notin cachedKeys(cache)
    /\ cacheSize(cache) = 1

----------------------------------------------------------------------------
(* The tool called under the spellings of one file's path                  *)

\* the spellings of the file "/w/f" a call or a read names it by, a link out
\* of the worktree, a path that does not exist, a file outside and a link to
\* a path outside that does not exist
SpellingArgs == {"f", "/w/f", "s", "/w/s", "/w/./f", "/w/l", "n", "/o/g", "/w/d"}

\* the keys the read hook caches the file under
ReadKeys == {"f", "/w/f", "s", "/w/s", "/w/./f"}

\* replace line 1 of "c\ne" by "e", and a call whose reference is malformed
SpellingToolArgs ==
    [path : SpellingArgs, operation : {"replace"},
     startRef : {bareRef(1, computeLineHash(0, <<99>>, 3)), <<120>>},
     endRef : {Undefined}, replacement : {Some(<<101>>)}]

SpellingInit ==
    /\ disk = [p \in {"/w/f", "/o/g"} |-> <<99, LF, 101>>]
    /\ cache = HashlineCache(ToolConfig.cacheSize)
    /\ meta = <<>>
    /\ call = Idle(0, "none")
    /\ ann = AnnOff
    /\ ver = VerOff
    /\ ed = EdOff

\* the read hook: the file is read and annotated through the cache under
\* filePath, and the annotation is what the model is given
CachedRead(filePath) ==
    /\ call.pc = "idle"
    /\ LET r == instanceFormat(ToolConfig, cache, disk["/w/f"], filePath)
       IN  /\ cache' = r.cache
           /\ call' = [read |-> [key |-> filePath, result |-> r.result]] @@ call
    /\ UNCHANGED <<disk, meta, ann, ver, ed>>

SpellingNext ==
    \/ \E args \in SpellingToolArgs : ToolStart(args)
    \/ ToolRead
    \/ ToolApply
    \/ ToolWrite
    \/ ToolWriteFails
    \/ ToolFinish
    \/ \E filePath \in ReadKeys : CachedRead(filePath)

SpecSpellings == SpellingInit /\ [][SpellingNext]_vars

\* the keys execute derives from its path argument
derivedKeys(path) ==
    {realAbsOf(absPathOf(path)), resolveOf(absPathOf(path)), absPathOf(path), path,
     displayPathOf(path, absPathOf(path))}

RECURSIVE entriesWithout(_, _)
entriesWithout(entries, keys) ==
    IF entries = <<>> THEN <<>>
    ELSE IF Head(entries).key \in keys THEN entriesWithout(Tail(entries), keys)
    ELSE <<Head(entries)>> \o entriesWithout(Tail(entries), keys)

\* C23: when a call of the tool succeeds, the entries cached under the real
\* path, the normalized path, the absolute path, the path argument and the
\* display path are removed and every other entry stays as it was, in place;
\* and an annotation read through the cache is the annotation of the content
\* the file has at that moment.
C23_EditInvalidatesDerivedKeys ==
    [][ /\ (call.pc = "written" /\ call'.pc = "idle")
            => /\ call'.last = "ok"
               /\ cache'.maxSize = cache.maxSize
               /\ cache'.entries = entriesWithout(cache.entries, derivedKeys(call.args.path))
        /\ "read" \in DOMAIN call'
            => call'.read.result = formatFileWithHashes(disk'["/w/f"], ToolConfig.hashLength, ToolConfig.prefix)
      ]_vars

\* the file was cached under "f" and under "/w/s"; a call through the link
\* "s" succeeded and left the entry of "f" alone; the file was then read under
\* "/w/s" and annotated afresh, so the cache holds the old annotation under "f"
\* and the new one under "/w/s"
C23_Witness ==
    /\ call.pc = "idle" /\ call.last = "ok"
    /\ "read" \in DOMAIN call /\ call.read.key = "/w/s"
    /\ meta # <<>> /\ meta[Len(meta)].path = "s"
    /\ disk["/w/f"] = <<101, LF, 101>>
    /\ cachedKeys(cache) = {"f", "/w/s"}
    /\ \E i \in 1..Len(cache.entries) :
          /\ cache.entries[i].key = "f"
          /\ cache.entries[i].contentHash = fnv1aHash(<<99, LF, 101>>)

----------------------------------------------------------------------------
(* The tool.execute.after and tool.execute.before hooks                    *)

\* the values of JavaScript the hooks tell apart: undefined, a string, and a
\* value that is truthy and not a string (a number other than 0, an object)
JsUndefined == [kind |-> "undefined", str |-> <<>>]
JsString(s) == [kind |-> "string", str |-> s]
JsOther == [kind |-> "other", str |-> <<>>]

truthy(v) == v.kind = "other" \/ (v.kind = "string" /\ v.str # <<>>)

\* a || b
orElse(a, b) == IF truthy(a) THEN a ELSE b

\* s.endsWith(t), s.includes(t)
endsWith(s, t) == Len(t) <= Len(s) /\ SubSeq(s, Len(s) - Len(t) + 1, Len(s)) = t

includes(s, t) == \E i \in 1..(Len(s) - Len(t) + 1) : SubSeq(s, i, i + Len(t) - 1) = t

\* "read", "file_read", "read_file", "cat", "view"
FILE_READ_TOOLS ==
    { <<114, 101, 97, 100>>,
      <<102, 105, 108, 101, 95, 114, 101, 97, 100>>,
      <<114, 101, 97, 100, 95, 102, 105, 108, 101>>,
      <<99, 97, 116>>,
      <<118, 105, 101, 119>> }

\* "write", "file_write", "file_edit", "edit", "edit_file",
\* "patch", "apply_patch", "multiedit", "batch"
FILE_EDIT_TOOLS ==
    { <<119, 114, 105, 116, 101>>,
      <<102, 105, 108, 101, 95, 119, 114, 105, 116, 101>>,
      <<102, 105, 108, 101, 95, 101, 100, 105, 116>>,
      <<101, 100, 105, 116>>,
      <<101, 100, 105, 116, 95, 102, 105, 108, 101>>,
      <<112, 97, 116, 99, 104>>,
      <<97, 112, 112, 108, 121, 95, 112, 97, 116, 99, 104>>,
      <<109, 117, 108, 116, 105, 101, 100, 105, 116>>,
      <<98, 97, 116, 99, 104>> }

\* "write", "edit", "patch", "execute", "run", "command", "shell", "bash"
writeIndicators ==
    { <<119, 114, 105, 116, 101>>,
      <<101, 100, 105, 116>>,
      <<112, 97, 116, 99, 104>>,
      <<101, 120, 101, 99, 117, 116, 101>>,
      <<114, 117, 110>>,
      <<99, 111, 109, 109, 97, 110, 100>>,
      <<115, 104, 101, 108, 108>>,
      <<98, 97, 115, 104>> }

\* the call has no args
NoArgs == [def |-> FALSE, path |-> JsUndefined, file |-> JsUndefined, filePath |-> JsUndefined]

Args(path, file, filePath) == [def |-> TRUE, path |-> path, file |-> file, filePath |-> filePath]

isFileReadTool(toolName, args) ==
    LET lower == toLowerCase(toolName)
        nameMatch == \E name \in FILE_READ_TOOLS : lower = name \/ endsWith(lower, <<46>> \o name)
    IN  IF nameMatch THEN TRUE
        ELSE IF args.def /\ (args.path.kind = "string" \/ args.filePath.kind = "string"
                                \/ args.file.kind = "string")
             THEN ~(\E w \in writeIndicators : includes(lower, w))
        ELSE FALSE

\* the tool name is on the list of edit tools, alone or after a dot
isFileEdit(tool) ==
    LET toolName == toLowerCase(tool)
    IN  \E name \in FILE_EDIT_TOOLS : toolName = name \/ endsWith(toolName, <<46>> \o name)

\* textEncoder.encode(content).length: a code unit below 0x80 takes one byte,
\* one below 0x800 two, a surrogate pair four, every other code unit (a lone
\* surrogate becomes U+FFFD) three
RECURSIVE getByteLengthFrom(_, _)
getByteLengthFrom(content, i) ==
    IF i > Len(content) THEN 0
    ELSE IF content[i] < 128 THEN 1 + getByteLengthFrom(content, i + 1)
    ELSE IF content[i] < 2048 THEN 2 + getByteLengthFrom(content, i + 1)
    ELSE IF /\ content[i] \in 55296..56319
            /\ i < Len(content)
            /\ content[i + 1] \in 56320..57343
         THEN 4 + getByteLengthFrom(content, i + 2)
    ELSE 3 + getByteLengthFrom(content, i + 1)

\* a length in code units instead of bytes
getByteLengthInUnits(content) == Len(content)

getByteLength(content) == getByteLengthFrom(content, 1)

\* picomatch(pattern, { dot: true })(filePath) with the backslashes of both
\* turned into slashes, for a pattern "**/*<suffix>" as the default patterns
\* "**/*.lock" and "**/*.map" are: the last segment of the path is one or
\* more code units followed by the suffix; any other pattern without
\* wildcards matches the path equal to it
matchesGlob(filePath, pattern) ==
    LET slashed(s) == [i \in 1..Len(s) |-> IF s[i] = 92 THEN 47 ELSE s[i]]
        normalizedPath == slashed(filePath)
        normalizedPattern == slashed(pattern)
    IN  IF startsWithAt(normalizedPattern, <<42, 42, 47, 42>>, 1)
        THEN LET suffix == SubSeq(normalizedPattern, 5, Len(normalizedPattern))
             IN  /\ endsWith(normalizedPath, suffix)
                 /\ Len(normalizedPath) > Len(suffix)
                 /\ normalizedPath[Len(normalizedPath) - Len(suffix)] # 47
        ELSE normalizedPath = normalizedPattern

shouldExclude(filePath, patterns) == \E pattern \in patterns : matchesGlob(filePath, pattern)
\* MAX_PROCESSED_IDS, 10000 in the source
MAX_PROCESSED_IDS == 2

\* a set that grows without evicting
boundedAddNoEviction(set, value, maxSize) == Append(set, value)

\* createBoundedSet(maxSize).add(value) for a value the set does not hold;
\* the set is kept as the sequence of its values in insertion order
boundedAdd(set, value, maxSize) ==
    IF Len(set) >= maxSize
    THEN (IF set # <<>> THEN Tail(set) ELSE set) \o <<value>>
    ELSE Append(set, value)

\* set.has(value)
boundedHas(set, value) == \E i \in 1..Len(set) : set[i] = value

\* "**/*.lock", one of the patterns of DEFAULT_EXCLUDE_PATTERNS
DEFAULT_EXCLUDE_PATTERNS == { <<42, 42, 47, 42, 46, 108, 111, 99, 107>> }

\* a configuration without exclude patterns
HookConfigNoExclude(maxFileSize) ==
    [exclude |-> {}, maxFileSize |-> maxFileSize, hashLength |-> 0, prefix |-> PrefixUndefined]

\* the resolved configuration of the hooks
HookConfig(maxFileSize) ==
    [exclude |-> DEFAULT_EXCLUDE_PATTERNS,
     maxFileSize |-> maxFileSize, hashLength |-> 0, prefix |-> PrefixUndefined]

\* the hook made by createFileReadAfterHook(cache, config), called with input
\* and output: the set of call ids, the cache and output.output when it
\* returns. A callID of 0 stands for the empty string.
fileReadAfter(resolved, hasCache, processedCallIds, c, input, output) ==
    LET duplicate == input.callID # 0 /\ boundedHas(processedCallIds, input.callID)
        ids == IF input.callID # 0 /\ ~duplicate
               THEN boundedAdd(processedCallIds, input.callID, MAX_PROCESSED_IDS)
               ELSE processedCallIds
        content == output.str
        filePath == IF input.args.def
                    THEN orElse(orElse(input.args.path, input.args.file), input.args.filePath)
                    ELSE JsUndefined
        useCache == hasCache /\ filePath.kind = "string"
        got == cacheGet(c, filePath.str, content)
        annotated == formatFileWithHashes(content, resolved.hashLength, resolved.prefix)
        skipped == [processedCallIds |-> ids, cache |-> c, output |-> output]
    IN  IF duplicate THEN skipped
        ELSE IF ~isFileReadTool(input.tool, input.args) THEN skipped
        ELSE IF ~truthy(output) \/ output.kind # "string" THEN skipped
        ELSE IF resolved.maxFileSize > 0 /\ getByteLength(content) > resolved.maxFileSize
             THEN skipped
        ELSE IF filePath.kind = "string" /\ shouldExclude(filePath.str, resolved.exclude)
             THEN skipped
        ELSE IF useCache /\ got.hit /\ got.value # <<>>
             THEN [processedCallIds |-> ids, cache |-> got.cache, output |-> JsString(got.value)]
        ELSE [processedCallIds |-> ids,
              cache |-> IF useCache THEN cacheSet(got.cache, filePath.str, content, annotated)
                        ELSE c,
              output |-> JsString(annotated)]

\* output.args of an edit tool: undefined, or an object with a path, a
\* content field and an array of edits with a content field each
NoEditArgs == [def |-> FALSE, path |-> <<>>, content |-> <<>>, edits |-> <<>>]

EditArgs(path, content, edits) ==
    [def |-> TRUE, path |-> path, content |-> content, edits |-> edits]

\* stripDeep(output.args)
stripDeep(obj, prefix) ==
    [obj EXCEPT !.content = stripHashes(@, prefix),
                !.edits = [i \in DOMAIN @ |->
                              [@[i] EXCEPT !.new_string = stripHashes(@, prefix)]]]

\* the hook made by createFileEditBeforeHook(config), called with input and
\* output: the set of call ids and output.args when it returns
fileEditBefore(resolved, processedCallIds, input, output) ==
    LET duplicate == input.callID # 0 /\ boundedHas(processedCallIds, input.callID)
        ids == IF input.callID # 0 /\ ~duplicate
               THEN boundedAdd(processedCallIds, input.callID, MAX_PROCESSED_IDS)
               ELSE processedCallIds
    IN  IF duplicate THEN [processedCallIds |-> ids, args |-> output]
        ELSE IF ~isFileEdit(input.tool) THEN [processedCallIds |-> ids, args |-> output]
        ELSE IF ~output.def THEN [processedCallIds |-> ids, args |-> output]
        ELSE [processedCallIds |-> ids, args |-> stripDeep(output, resolved.prefix)]

\* the call ids of the invocations
CallIds == 0..3

\* for each call id, the number of other call ids a hook has taken up since it
\* took up this one, counted up to MAX_PROCESSED_IDS; -1 before it has
\* taken it up
NoAges == [id \in CallIds \ {0} |-> -1]

recent(age, id) == id # 0 /\ age[id] \in 0..(MAX_PROCESSED_IDS - 1)

takeUp(age, id) ==
    IF id = 0 \/ recent(age, id) THEN age
    ELSE [y \in DOMAIN age |->
             IF y = id THEN 0
             ELSE IF age[y] = -1 THEN -1
             ELSE IF age[y] < MAX_PROCESSED_IDS THEN age[y] + 1
             ELSE age[y]]

\* the two hooks of one plugin instance before their first invocation
HooksNew(hasCache, maxFileSize) ==
    [hook |-> "none", hasCache |-> hasCache, maxFileSize |-> maxFileSize,
     readIds |-> <<>>, editIds |-> <<>>,
     readAge |-> NoAges, editAge |-> NoAges, readSeen |-> {}, editSeen |-> {}]

HookInit(hasCache, maxFileSize) ==
    /\ cache = HashlineCache(ToolConfig.cacheSize)
    /\ call = HooksNew(hasCache, maxFileSize)
    /\ disk = <<>>
    /\ meta = <<>>
    /\ ann = AnnOff
    /\ ver = VerOff
    /\ ed = EdOff

\* the hooks' state after an invocation that returned r
afterRead(c, input, output, r) ==
    [hook |-> "read", hasCache |-> c.hasCache, maxFileSize |-> c.maxFileSize,
     readIds |-> r.processedCallIds, editIds |-> c.editIds,
     readAge |-> takeUp(c.readAge, input.callID), editAge |-> c.editAge,
     readSeen |-> c.readSeen \cup {input.callID}, editSeen |-> c.editSeen,
     input |-> input, before |-> output, after |-> r.output,
     repeated |-> input.callID \in c.readSeen,
     recent |-> recent(c.readAge, input.callID)]

afterEdit(c, input, output, r) ==
    [hook |-> "edit", hasCache |-> c.hasCache, maxFileSize |-> c.maxFileSize,
     readIds |-> c.readIds, editIds |-> r.processedCallIds,
     readAge |-> c.readAge, editAge |-> takeUp(c.editAge, input.callID),
     readSeen |-> c.readSeen, editSeen |-> c.editSeen \cup {input.callID},
     input |-> input, before |-> output, after |-> r.args,
     repeated |-> input.callID \in c.editSeen,
     recent |-> recent(c.editAge, input.callID)]

\* tool.execute.after is invoked
ReadHook(input, output) ==
    /\ LET r == fileReadAfter(HookConfig(call.maxFileSize), call.hasCache, call.readIds,
                              cache, input, output)
       IN  /\ cache' = r.cache
           /\ call' = afterRead(call, input, output, r)
    /\ UNCHANGED <<disk, meta, ann, ver, ed>>

\* tool.execute.before is invoked
EditHook(input, output) ==
    /\ call' = afterEdit(call, input, output,
                         fileEditBefore(HookConfig(call.maxFileSize), call.editIds, input, output))
    /\ UNCHANGED <<disk, cache, meta, ann, ver, ed>>

\* "read", "Mcp.View", "grep", "bash"
ReadTools ==
    { <<114, 101, 97, 100>>, <<77, 99, 112, 46, 86, 105, 101, 119>>,
      <<103, 114, 101, 112>>, <<98, 97, 115, 104>> }

\* no args; path "f"; path "a.lock"; path "" and file "a.lock"; a path that is
\* not a string; filePath "f"
ReadArgs ==
    { NoArgs,
      Args(JsString(<<102>>), JsUndefined, JsUndefined),
      Args(JsString(<<97, 46, 108, 111, 99, 107>>), JsUndefined, JsUndefined),
      Args(JsString(<<>>), JsString(<<97, 46, 108, 111, 99, 107>>), JsUndefined),
      Args(JsOther, JsUndefined, JsUndefined),
      Args(JsUndefined, JsUndefined, JsString(<<102>>)) }

\* undefined, an object, "", "c" and "c<e acute>c", of three code units and
\* four bytes
ReadOutputs ==
    { JsUndefined, JsOther, JsString(<<>>), JsString(<<99>>), JsString(<<99, 233, 99>>) }

\* the invocation of "read" on the path "f" under the call id 1
ReadAgain == [tool |-> <<114, 101, 97, 100>>,
              args |-> Args(JsString(<<102>>), JsUndefined, JsUndefined), callID |-> 1]

\* maxFileSize: no limit, or three bytes
FileSizes == {0, 3}

\* the hook has a cache, or it has none and a limit
ReadHookInit ==
    \E hasCache \in BOOLEAN, maxFileSize \in FileSizes :
        (hasCache \/ maxFileSize > 0) /\ HookInit(hasCache, maxFileSize)

ReadHookNext ==
    \/ \E tool \in ReadTools, args \in ReadArgs, output \in ReadOutputs :
          ReadHook([tool |-> tool, args |-> args, callID |-> 0], output)
    \/ \E output \in {JsString(<<99>>), JsString(<<101>>)} : ReadHook(ReadAgain, output)

SpecReadHook == ReadHookInit /\ [][ReadHookNext]_vars

----------------------------------------------------------------------------
(* Properties of the read hook                                             *)

\* the path the read hook would take from the args of an invocation
HookPath(input) ==
    IF input.args.def
    THEN orElse(orElse(input.args.path, input.args.file), input.args.filePath)
    ELSE JsUndefined

\* the tool is a file-read tool, the output is a non-empty string no longer
\* than maxFileSize bytes when there is a limit, and the path matches no
\* exclude pattern
Annotatable(input, output, maxFileSize) ==
    /\ isFileReadTool(input.tool, input.args)
    /\ output.kind = "string" /\ output.str # <<>>
    /\ maxFileSize > 0 => getByteLength(output.str) <= maxFileSize
    /\ HookPath(input).kind = "string"
          => ~shouldExclude(HookPath(input).str, DEFAULT_EXCLUDE_PATTERNS)

\* C24: an invocation of the read hook changes output.output only when the
\* tool is a file-read tool, the output is a non-empty string within
\* maxFileSize bytes and the path matches no exclude pattern, and then
\* output.output becomes the annotation of what it was; in every other case
\* output.output and the cache are as they were.
C24_ReadHookFrame ==
    [][ call'.hook = "read" =>
          /\ call'.after # call'.before
                => /\ Annotatable(call'.input, call'.before, call.maxFileSize)
                   /\ call'.after = JsString(formatFileWithHashes(call'.before.str, 0, PrefixUndefined))
          /\ ~Annotatable(call'.input, call'.before, call.maxFileSize)
                => /\ call'.after = call'.before
                   /\ cache' = cache
      ]_vars

\* under a limit of three bytes "grep", which is no read tool by name, was
\* called with a path and returned "c": the output is annotated and cached
C24_Witness ==
    /\ call.hook = "read"
    /\ call.maxFileSize = 3
    /\ call.input.tool = <<103, 114, 101, 112>>
    /\ call.input.args.path = JsString(<<102>>)
    /\ call.before = JsString(<<99>>)
    /\ call.after = JsString(formatFileWithHashes(<<99>>, 0, PrefixUndefined))
    /\ cache.entries # <<>>

----------------------------------------------------------------------------
(* The two hooks invoked under call ids that come back                     *)

\* "#HL 1:ab|c" and "#HL 2:cd|e"
AnnotatedC == <<35, 72, 76, 32, 49, 58, 97, 98, 124, 99>>
AnnotatedE == <<35, 72, 76, 32, 50, 58, 99, 100, 124, 101>>

\* "read" on the path "f"
DedupReadInputs ==
    { [tool |-> <<114, 101, 97, 100>>,
       args |-> Args(JsString(<<102>>), JsUndefined, JsUndefined), callID |-> id] : id \in CallIds }

\* "edit" and "read"
DedupEditInputs ==
    { [tool |-> tool, callID |-> id] :
        tool \in { <<101, 100, 105, 116>>, <<114, 101, 97, 100>> }, id \in CallIds }

DedupEditArgs == EditArgs(<<102>>, AnnotatedC, <<[new_string |-> AnnotatedE]>>)

HooksInit == HookInit(TRUE, 0)

HooksNext ==
    \/ \E input \in DedupReadInputs : ReadHook(input, JsString(<<99>>))
    \/ \E input \in DedupEditInputs : EditHook(input, DedupEditArgs)
    \/ EditHook([tool |-> <<101, 100, 105, 116>>, callID |-> 0], NoEditArgs)

SpecHooks == HooksInit /\ [][HooksNext]_vars

\* what an invocation that is not skipped makes of the output it is given
Processed(c) ==
    IF c.hook = "read"
    THEN IF Annotatable(c.input, c.before, c.maxFileSize)
         THEN JsString(formatFileWithHashes(c.before.str, 0, PrefixUndefined))
         ELSE c.before
    ELSE IF isFileEdit(c.input.tool) /\ c.before.def
         THEN [c.before EXCEPT !.content = stripHashes(@, PrefixUndefined),
                               !.edits = [i \in DOMAIN @ |->
                                             [new_string |-> stripHashes(@[i].new_string, PrefixUndefined)]]]
         ELSE c.before

\* C28 as stated: an invocation whose call id is that of an earlier
\* invocation of the same hook changes neither the output, nor the args, nor
\* the cache, and the hooks remember at most MAX_PROCESSED_IDS call ids.
C28_RepeatedCallIdSkipped ==
    [][ call'.hook \in {"read", "edit"} =>
          /\ call'.repeated => (call'.after = call'.before /\ cache' = cache)
          /\ Len(call'.readIds) <= MAX_PROCESSED_IDS
          /\ Len(call'.editIds) <= MAX_PROCESSED_IDS
      ]_vars

\* C28, amended: an invocation whose call id is not empty and which the same
\* hook has taken up with fewer than MAX_PROCESSED_IDS other call ids taken
\* up since changes neither the output, nor the args, nor the cache, nor the
\* remembered call ids; every other invocation, one with an empty call id or
\* with a call id pushed out by MAX_PROCESSED_IDS later ones included, is
\* processed as a first one; the hooks remember at most MAX_PROCESSED_IDS
\* call ids each.
C28_RecentCallIdSkipped ==
    [][ call'.hook \in {"read", "edit"} =>
          /\ call'.recent
                => /\ call'.after = call'.before
                   /\ cache' = cache
                   /\ call'.readIds = call.readIds /\ call'.editIds = call.editIds
          /\ ~call'.recent => call'.after = Processed(call')
          /\ Len(call'.readIds) <= MAX_PROCESSED_IDS
          /\ Len(call'.editIds) <= MAX_PROCESSED_IDS
      ]_vars

\* the read hook took up the call id 1, then 2, and is invoked with 1 again:
\* the output stays as it was; the edit hook has seen neither
C28_Witness ==
    /\ call.hook = "read"
    /\ call.input.callID = 1 /\ call.input.tool = <<114, 101, 97, 100>>
    /\ call.repeated /\ call.recent
    /\ call.readIds = <<1, 2>>
    /\ call.editIds = <<>>
    /\ call.after = call.before

----------------------------------------------------------------------------
(* computeLineHash on a line with and without trailing white space         *)

\* the longest line and the longest run of white space
MaxLineLen == 2
MaxRunLen == 2

\* lines over "c" and the space, white space in front and inside included
TrimLines == StringsUpTo({99, 32}, MaxLineLen)

\* runs of space, tab, CR and no-break space
TrimRuns == StringsUpTo({32, 9, CR, 160}, MaxRunLen) \ {<<>>}

TrimInit ==
    /\ ver \in [phase : {"line"}, idx : 0..2, line : TrimLines, run : TrimRuns]
    /\ ann = AnnOff
    /\ ed = EdOff
    /\ ToolOff

\* computeLineHash(idx, line, hashLen) and computeLineHash(idx, line + run, hashLen)
HashBoth(hashLen) ==
    /\ ver.phase = "line"
    /\ ver' = [phase |-> "hashed", idx |-> ver.idx, line |-> ver.line, run |-> ver.run,
               hashLen |-> hashLen,
               plain |-> computeLineHash(ver.idx, ver.line, hashLen),
               padded |-> computeLineHash(ver.idx, ver.line \o ver.run, hashLen)]
    /\ UNCHANGED <<ann, ed, toolVars>>

\* the document whose line idx + 1 is line, after idx lines "c" and before a
\* line "e", its lines joined by sep
TrimDoc(idx, line, sep) == join([i \in 1..idx |-> <<99>>] \o <<line, <<101>>>>, sep)

\* a reference to the line is taken at length hashLen from the document with
\* the run (padded) or without it, and verified against both
VerifyBoth(hashLen, sep, padded) ==
    /\ ver.phase = "line"
    /\ LET without == TrimDoc(ver.idx, ver.line, sep)
           with == TrimDoc(ver.idx, ver.line \o ver.run, sep)
           hash == computeLineHash(ver.idx, IF padded THEN ver.line \o ver.run ELSE ver.line,
                                   hashLen)
       IN  ver' = [phase |-> "verified", idx |-> ver.idx, line |-> ver.line, run |-> ver.run,
                   hashLen |-> hashLen, padded |-> padded,
                   validWithout |-> verifyHash(ver.idx + 1, hash, without, 0, NoLines).valid,
                   validWith |-> verifyHash(ver.idx + 1, hash, with, 0, NoLines).valid]
    /\ UNCHANGED <<ann, ed, toolVars>>

TrimNext ==
    \/ \E hashLen \in {0, 1, 3, 8, 9} : HashBoth(hashLen)
    \/ \E hashLen \in {2, 3, 8}, sep \in {<<LF>>, <<CR, LF>>}, padded \in BOOLEAN :
          VerifyBoth(hashLen, sep, padded)

SpecTrim == TrimInit /\ [][TrimNext]_vars

\* C25: the hash of a line followed by a run of white space is the hash of
\* the line, at every index and length; a reference taken from the line with
\* or without the run verifies against the document with the run and against
\* the document without it.
C25_TrailingWhitespaceIgnored ==
    /\ ver.phase = "hashed" => ver.padded = ver.plain
    /\ ver.phase = "verified" => (ver.validWithout /\ ver.validWith)

\* the line " c" at index 1 followed by a tab and a CR: both hashes are the
\* eight digits of the hash of "1: c"
C25_Witness ==
    /\ ver.phase = "hashed"
    /\ ver.idx = 1 /\ ver.line = <<32, 99>> /\ ver.run = <<9, CR>>
    /\ ver.hashLen = 8
    /\ ver.padded = computeLineHash(1, <<32, 99>>, 8)
    /\ ver.padded # computeLineHash(1, <<99>>, 8)

----------------------------------------------------------------------------
(* A reference used by two applyHashEdit calls in a row                    *)

\* "c\ne", "c\nc", "c\ne\nc"
ReuseDocs ==
    { <<99, LF, 101>>, <<99, LF, 99>>, <<99, LF, 101, LF, 99>> }

\* "c", "e", "c "
ReuseReplacements == {Some(<<99>>), Some(<<101>>), Some(<<99, 32>>)}

\* the references of the lines of content
ReuseRefs(content) ==
    {bareRef(n, computeLineHash(n - 1, split(content)[n], 3)) : n \in 1..Len(split(content))}

ReuseInputs(refs) ==
    [operation : Operations, startRef : refs, endRef : {Undefined},
     replacement : ReuseReplacements]

ReuseInit ==
    /\ ed \in {[phase |-> "input", content |-> C, refs |-> ReuseRefs(C)] : C \in ReuseDocs}
    /\ ann = AnnOff
    /\ ver = VerOff
    /\ ToolOff

\* a second call that is given the content the first call received
ApplyAgainOnInput(input) ==
    /\ ed.phase = "applied"
    /\ ed.result.ok
    /\ ed' = [phase |-> "again", content |-> ed.content, input |-> ed.input,
              hashLen |-> ed.hashLen, result |-> ed.result, secondInput |-> input,
              second |-> applyHashEdit(input, ed.content, ed.hashLen)]
    /\ UNCHANGED <<ann, ver, toolVars>>

\* after a call that succeeded, applyHashEdit(input, content returned, hashLen)
ApplyAgain(input) ==
    /\ ed.phase = "applied"
    /\ ed.result.ok
    /\ ed' = [phase |-> "again", content |-> ed.content, input |-> ed.input,
              hashLen |-> ed.hashLen, result |-> ed.result, secondInput |-> input,
              second |-> applyHashEdit(input, ed.result.content, ed.hashLen)]
    /\ UNCHANGED <<ann, ver, toolVars>>

ReuseNext ==
    \/ /\ ed.phase = "input"
       /\ \E input \in ReuseInputs(ed.refs) : ApplyEdit(input, 0)
    \/ /\ ed.phase = "applied"
       /\ \E op \in Operations, replacement \in ReuseReplacements :
             ApplyAgain([operation |-> op, startRef |-> ed.input.startRef,
                         endRef |-> Undefined, replacement |-> replacement])

SpecReuse == ReuseInit /\ [][ReuseNext]_vars

\* C26 as stated: after an edit that succeeded with the reference R, a second
\* edit with R on the content returned does not succeed.
C26_ReferenceConsumedOnce == ed.phase = "again" => ~ed.second.ok

\* C26, amended: nothing is kept of a reference between two calls; a second
\* edit with R on the content the first returned succeeds exactly when line n
\* of that content still hashes to the hash of R. After an insert_after it
\* always does; after an insert_before, a replace or a delete it does when the
\* line that came to stand at n has the content of the old one, trailing
\* white space aside.
C26_ReferenceVerifiedAfresh ==
    ed.phase = "again" =>
        LET old == workLines(ed.content)
            new == workLines(ed.result.content)
            n == EdStart.line
        IN  /\ ed.second.ok <=> LineMatches(EdStart, new, ed.hashLen)
            /\ ed.input.operation = "insert_after" => ed.second.ok
            /\ ed.second.ok <=> (n <= Len(new) /\ trimEnd(new[n]) = trimEnd(old[n]))

\* "e" was inserted after line 1 of "c\ne" with the reference of line 1, and
\* again with the same reference: "c\ne\ne\ne"
C26_Witness ==
    /\ ed.phase = "again"
    /\ ed.content = <<99, LF, 101>>
    /\ ed.input.operation = "insert_after" /\ EdStart.line = 1
    /\ ed.secondInput.operation = "insert_after"
    /\ ed.second.ok
    /\ ed.second.content = <<99, LF, 101, LF, 101, LF, 101>>

----------------------------------------------------------------------------
(* Properties of collision widening                                        *)

\* the hash emitted line n carries: what stands between "<prefix><n>:" and
\* the first "|" after it
EmittedHash(n) ==
    LET head == effectivePrefix(ann.prefix) \o toDecimal(n) \o <<58>>
        rest == SubSeq(AnnOut[n], Len(head) + 1, Len(AnnOut[n]))
        bar == CHOOSE k \in 1..Len(rest) :
                   rest[k] = 124 /\ \A j \in 1..(k - 1) : rest[j] # 124
    IN  SubSeq(rest, 1, bar - 1)

\* C27: in the output of formatFileWithHashes no two lines of the document
\* carry the same hash.
C27_HashesDistinct ==
    ann.phase = "formatted" =>
        \A i \in 1..Len(AnnOut) : \A j \in 1..Len(AnnOut) :
            i # j => EmittedHash(i) # EmittedHash(j)

----------------------------------------------------------------------------
(* replaceRange and applyHashEdit with the operation replace on one input  *)

ReplaceInit == EdInit

\* replaceRange(startRef, endRef, content, replacement, hashLen) on a document
\* of the edit world
ReplaceRange(startRef, endRef, replacement, hashLen) ==
    /\ ed.phase = "input"
    /\ ed' = [phase |-> "replaced", content |-> ed.content, startRef |-> startRef,
              endRef |-> endRef, replacement |-> replacement, hashLen |-> hashLen,
              viaRange |-> replaceRange(startRef, endRef, ed.content, replacement, hashLen)]
    /\ UNCHANGED <<ann, ver, toolVars>>

ReplaceNext ==
    /\ ed.phase = "input"
    /\ \E startRef \in ed.refs, endRef \in ed.refs,
          replacement \in {r.str : r \in Replacements \ {Undefined}}, hashLen \in {0, 4} :
            ReplaceRange(startRef, endRef, replacement, hashLen)

SpecReplace == ReplaceInit /\ [][ReplaceNext]_vars

\* ref is <digits>:<2 to 8 lower-case hex digits> and nothing else
BareLowerRef(ref) ==
    \E d \in 1..Len(ref) :
        /\ ref[d] = 58
        /\ d > 1
        /\ \A i \in 1..(d - 1) : ref[i] \in Digit
        /\ Len(ref) - d \in 2..8
        /\ \A i \in (d + 1)..Len(ref) : ref[i] \in LowerHex

\* applyHashEdit({operation: "replace", startRef, endRef, replacement},
\* content, hashLen) on the inputs replaceRange was called with
viaEdit ==
    applyHashEdit([operation |-> "replace", startRef |-> ed.startRef,
                   endRef |-> Some(ed.endRef), replacement |-> Some(ed.replacement)],
                  ed.content, ed.hashLen)

\* C29: with bare lower-case references, replaceRange and applyHashEdit with
\* the operation replace both fail or both succeed, and when they succeed
\* they return the same content.
C29_ReplaceRangeAsReplace ==
    (ed.phase = "replaced" /\ BareLowerRef(ed.startRef) /\ BareLowerRef(ed.endRef)) =>
        /\ ed.viaRange.ok = viaEdit.ok
        /\ ed.viaRange.ok => ed.viaRange.content = viaEdit.content

\* lines 1 to 2 of "c\r\ne\r\ncc" replaced by "": both return "\r\ncc", one
\* empty line in place of the two
C29_Witness ==
    /\ ed.phase = "replaced"
    /\ ed.content = <<99, CR, LF, 101, CR, LF, 99, 99>>
    /\ BareLowerRef(ed.startRef) /\ BareLowerRef(ed.endRef)
    /\ ed.startRef # ed.endRef
    /\ ed.replacement = <<>>
    /\ ed.viaRange.ok /\ viaEdit.ok
    /\ ed.viaRange.content = <<CR, LF, 99, 99>>
    /\ viaEdit.content = <<CR, LF, 99, 99>>

----------------------------------------------------------------------------
(* Properties of the access check                                          *)

\* the path arguments that name, links resolved, the file "/o/g" outside the
\* worktree
OutsideArgs == {"/w/l", "/o/g"}

\* C30: a call whose path resolves, links followed, to a file outside the
\* worktree ends "access denied" at its first step, with the files, the cache
\* and the metadata as they were, and never gets to read; no step of any call
\* changes the file outside or creates a file.
C30_OutsideNeverTouched ==
    [][ /\ (call.pc = "idle" /\ call'.n = call.n + 1)
            => \/ /\ call'.pc = "idle" /\ call'.last = "access denied"
                  /\ call'.error.path \in OutsideArgs
                  /\ disk' = disk /\ cache' = cache /\ meta' = meta
               \/ /\ call'.pc = "resolved"
                  /\ call'.args.path \notin OutsideArgs
        /\ (call.pc = "resolved" /\ call'.pc = "read")
            => /\ call.args.path \notin OutsideArgs
               /\ call'.current = disk["/w/f"]
        /\ DOMAIN disk' = DOMAIN disk
        /\ disk'["/o/g"] = disk["/o/g"]
        /\ (disk' # disk \/ meta' # meta) => call.args.path \notin OutsideArgs
      ]_vars

\* the file was cached, then a call through the link "/w/l" was denied: the
\* cache and the files are as before and nothing was reported
C30_Witness ==
    /\ call.pc = "idle" /\ call.last = "access denied"
    /\ call.error.path = "/w/l"
    /\ cache.entries # <<>>
    /\ meta = <<>>
    /\ disk = [p \in {"/w/f", "/o/g"} |-> <<99, LF, 101>>]

====
